---------------------------- MODULE Spec2Model ----------------------------
(***************************************************************************)
(* Verification model of the Dashboard front end:                          *)
(*   - SocioTitularRegistrationForm: the identity-lookup fallback chain    *)
(*     (searchSocioByDni / fetchReniecDataAndPopulate) and the confirmed   *)
(*     submission (onSubmit / handleConfirmSubmit);                        *)
(*   - PartnerDocuments: fetchAllData, handleUpdateLoteMedido,             *)
(*     handleBulkUpdateLoteMedido, handleDeleteDocument;                   *)
(*   - DataTable: controlled / internally-owned pagination and selection;  *)
(*   - RecibosPage: loadCorrelative, handleDniSearch, onSubmit.            *)
(* Every handler is an async function: the code between two awaits is one  *)
(* atomic action, and each awaited backend or HTTP call is answered by a   *)
(* separate response action (success or failure chosen by the environment).*)
(* The variable `focus` names the component a behaviour exercises; the     *)
(* components live on different routes and share no client state.          *)
(***************************************************************************)
EXTENDS Integers, Sequences, FiniteSets, TLC

VARIABLES
    focus,              \* component exercised by the behaviour
    \* ---- SocioTitularRegistrationForm: lookup chain ----
    form,               \* form field -> value ("" = empty, else the writer's tag)
    dniLen8,            \* the DNI input currently holds 8 characters
    isDniSearching,
    isReniecSearching,
    tokens,             \* import.meta.env tokens configured, per API
    run,                \* invocation of searchSocioByDni -> its position and locals
    edits,              \* number of user edits typed so far (bounded)
    \* ---- SocioTitularRegistrationForm: confirmed submission ----
    socios,             \* backend table socio_titulares: a set of rows
    nextId,             \* next id the backend assigns on insert
    sess,               \* form session -> component state and handler position
    \* ---- PartnerDocuments ----
    loteFlag,           \* backend socio_titulares.is_lote_medido: "true"/"false"/"null"
    docs,               \* backend socio_documentos: ids of the records present
    files,              \* storage: ids of the documents whose file is stored
    sociosConDocumentos,\* local list: a set of rows [id, is_lote_medido, socio_documentos]
    loading,
    error,
    rowSelection,
    isBulkUpdating,
    isAdmin,
    deleteConfirmState,
    isDeleting,
    fetches,            \* fetchAllData calls in flight
    toggles,            \* handleUpdateLoteMedido calls awaiting the backend
    bulk,               \* handleBulkUpdateLoteMedido call awaiting the backend
    del,                \* handleDeleteDocument call awaiting storage / backend
    \* ---- DataTable ----
    props,              \* which optional props the caller passes
    callerPagination,   \* the caller's own pagination state
    callerRowSelection, \* the caller's own row-selection state
    internalPagination,
    internalRowSelection,
    data,               \* data.length
    effectDue,          \* the page-reset effect's dependencies changed in the last render
    \* ---- RecibosPage ----
    isSearching,
    isSubmitting,
    correlative,
    clientData,
    recibo,             \* onSubmit call in flight: its position and captured values
    reciboForm,         \* form values dni, client_name, client_id
    corrLoads,          \* loadCorrelative calls in flight
    search,             \* handleDniSearch call in flight: the DNI it asked for
    savedPdfs,          \* backend: receipt PDFs stored and linked [correlative, client]
    ingresos,           \* backend table ingresos [receipt_number, dni, full_name]
    registeredSinceLoad,\* an income was registered after correlative was last set
    paymentObserved,    \* backend: socio_titulares.is_payment_observed of the client
    \* ---- observation of the handlers ----
    last                \* what the most recent handler step did (event, toast, flag)

lookupVars == <<form, dniLen8, isDniSearching, isReniecSearching, tokens, run, edits>>
submitVars == <<socios, nextId, sess>>

docsBackend == <<loteFlag, docs, files>>
docsLocal == <<sociosConDocumentos, loading, error, rowSelection, isBulkUpdating,
               isAdmin, deleteConfirmState, isDeleting>>
docsFlight == <<fetches, toggles, bulk, del>>
docsVars == <<docsBackend, docsLocal, docsFlight>>

tableVars == <<props, callerPagination, callerRowSelection, internalPagination,
               internalRowSelection, data, effectDue>>
recibosVars == <<isSearching, isSubmitting, correlative, clientData, recibo, reciboForm,
                 corrLoads, search, savedPdfs, ingresos, registeredSinceLoad,
                 paymentObserved>>

vars == <<focus, lookupVars, submitVars, docsVars, tableVars, recibosVars, last>>

notLookup == <<focus, submitVars, docsVars, tableVars, recibosVars, last>>
notSubmit == <<focus, lookupVars, docsVars, tableVars, recibosVars>>
notDocs == <<focus, lookupVars, submitVars, tableVars, recibosVars>>
notTable == <<focus, lookupVars, submitVars, docsVars, recibosVars>>
notRecibos == <<focus, lookupVars, submitVars, docsVars, tableVars>>

-----------------------------------------------------------------------------
(* Bounds *)
MaxEdits == 1   \* user keystroke edits of personal-data fields per behaviour
MaxRows  == 3   \* rows socio_titulares may grow to
MaxFetches == 1 \* fetchAllData calls in flight at once
MaxToggles == 1 \* handleUpdateLoteMedido calls in flight at once
MaxOverlap == 2 \* the same, in the behaviours that let the calls overlap
MaxLoads == 2   \* loadCorrelative calls in flight at once
MaxRecibos == 2 \* income records the table ingresos may grow to

NoEvent == [h |-> "none"]
NoData == [none |-> TRUE]

\* two registration-form sessions (browser tabs) working against the same backend
Sessions == {"a", "b"}
ClosedSession == [mounted |-> FALSE, socioId |-> 0, dataToConfirm |-> NoData,
                  isConfirmDialogOpen |-> FALSE, isConfirmingSubmission |-> FALSE,
                  dniError |-> FALSE, pc |-> "idle", snap |-> NoData,
                  payload |-> NoData]

\* the parts of the state a behaviour focused elsewhere never touches
SubmitUnused ==
    /\ socios = {}
    /\ nextId = 1
    /\ sess = [s \in Sessions |-> ClosedSession]

SocioIds == {"s1", "s2"}
NoDelete == [isOpen |-> FALSE, documentId |-> 0, documentLink |-> "none",
             documentType |-> "none"]

InitialPagination == [pageIndex |-> 0, pageSize |-> 10]
NoProps == [pagination |-> FALSE, onPaginationChange |-> FALSE,
            rowSelection |-> FALSE, onRowSelectionChange |-> FALSE]

TableUnused ==
    /\ props = NoProps
    /\ callerPagination = InitialPagination
    /\ callerRowSelection = {}
    /\ internalPagination = InitialPagination
    /\ internalRowSelection = {}
    /\ data = 0
    /\ effectDue = FALSE

RecibosUnused ==
    /\ isSearching = FALSE
    /\ isSubmitting = FALSE
    /\ correlative = ""
    /\ clientData = NoData
    /\ recibo = NoData
    /\ reciboForm = NoData
    /\ corrLoads = 0
    /\ search = "none"
    /\ savedPdfs = {}
    /\ ingresos = {}
    /\ registeredSinceLoad = FALSE
    /\ paymentObserved = FALSE

DocsUnused ==
    /\ loteFlag = [s \in SocioIds |-> "null"]
    /\ docs = {}
    /\ files = {}
    /\ sociosConDocumentos = {}
    /\ loading = FALSE
    /\ error = FALSE
    /\ rowSelection = {}
    /\ isBulkUpdating = FALSE
    /\ isAdmin = FALSE
    /\ deleteConfirmState = NoDelete
    /\ isDeleting = FALSE
    /\ fetches = 0
    /\ toggles = {}
    /\ bulk = NoData
    /\ del = NoData

-----------------------------------------------------------------------------
(* ---------------- SocioTitularRegistrationForm: lookup ----------------- *)

Apis == <<"primary", "secondary", "tertiary">>
ApiSet == {"primary", "secondary", "tertiary"}
ApiIndex(a) == CHOOSE i \in 1..3 : Apis[i] = a

\* fieldsToCheck of fetchReniecDataAndPopulate
FieldsToCheck == {"nombres", "apellidoPaterno", "apellidoMaterno", "fechaNacimiento",
                  "direccionDNI", "regionDNI", "provinciaDNI", "distritoDNI"}
\* fields searchSocioByDni touches (edad is derived from fechaNacimiento by an effect)
LookupFields == FieldsToCheck \cup {"celular", "localidad"}

\* fields each API's response handler assigns
PrimaryFields   == FieldsToCheck
SecondaryFields == FieldsToCheck \ {"fechaNacimiento"}
TertiaryFields  == {"nombres", "apellidoPaterno", "apellidoMaterno",
                    "fechaNacimiento", "direccionDNI"}

\* Response shapes: the fields for which the API's payload carries a non-empty value.
PrimaryShapes ==
    { FieldsToCheck,
      {"nombres", "apellidoPaterno"},
      {} }
SecondaryShapes ==
    { SecondaryFields,
      {"direccionDNI", "regionDNI", "provinciaDNI", "distritoDNI"},
      {} }
TertiaryShapes ==
    { TertiaryFields,
      {"fechaNacimiento", "direccionDNI"} }

\* invocations of searchSocioByDni that may overlap (a blur during a search)
Runs == {"r1", "r2"}

IdleRun == [pc |-> "idle", dataFound |-> FALSE, log |-> <<>>,
            reniecAtRet |-> "n/a", dniAtRet |-> "n/a",
            db |-> "n/a"]   \* while the run awaits an API: what the local lookup
                            \* answered; "unasked" after a return for an invalid DNI

\* checkMissingFields: some checked field is still falsy
checkMissingFields(frm) == \E f \in FieldsToCheck : frm[f] = ""

Flag(b) == IF b THEN "busy" ELSE "clear"

\* searchSocioByDni, invalid DNI: clears the personal fields (incl. localidad)
ClearInvalid(frm) == [f \in LookupFields |-> ""]
\* searchSocioByDni, valid DNI: clears all but localidad
ClearValid(frm) == [f \in LookupFields |-> IF f = "localidad" THEN frm[f] ELSE ""]

\* INTENTO 1 success branch: every checked field is assigned (value or '')
ApplyPrimary(frm, shape) ==
    [f \in LookupFields |->
        IF f \in PrimaryFields THEN (IF f \in shape THEN "primary" ELSE "")
        ELSE frm[f]]

\* faulty variant: the secondary response overwrites fields already filled
ApplySecondaryOverwrite(frm, shape) ==
    [f \in LookupFields |->
        IF f \in SecondaryFields THEN (IF f \in shape THEN "secondary" ELSE "")
        ELSE frm[f]]

\* INTENTO 2 success branch: if (!watch(f)) setValue(f, ...)
ApplySecondary(frm, shape) ==
    [f \in LookupFields |->
        IF f \in SecondaryFields /\ frm[f] = ""
        THEN (IF f \in shape THEN "secondary" ELSE "")
        ELSE frm[f]]

\* INTENTO 3 success branch: if (!watch(f)) setValue(f, ...)
ApplyTertiary(frm, shape) ==
    [f \in LookupFields |->
        IF f \in TertiaryFields /\ frm[f] = ""
        THEN (IF f \in shape THEN "tertiary" ELSE "")
        ELSE frm[f]]

\* The synchronous tail of fetchReniecDataAndPopulate from the tertiary guard on:
\* the position the run stops at and the log it has by then.
FromTertiary(df, frm, lg) ==
    IF ~df \/ checkMissingFields(frm)
    THEN IF tokens.tertiary
         THEN [pc |-> "tertiary_wait", log |-> Append(lg, <<"req", "tertiary">>)]
         ELSE [pc |-> "finish", log |-> Append(lg, <<"notoken", "tertiary">>)]
    ELSE [pc |-> "finish", log |-> Append(lg, <<"skip", "tertiary">>)]

\* faulty variant: the secondary API is requested whenever its token is configured
FromSecondaryUnguarded(df, frm, lg) ==
    IF tokens.secondary
    THEN [pc |-> "secondary_wait", log |-> Append(lg, <<"req", "secondary">>)]
    ELSE FromTertiary(df, frm, Append(lg, <<"notoken", "secondary">>))

\* ... and from the secondary guard on.
FromSecondary(df, frm, lg) ==
    IF ~df \/ checkMissingFields(frm)
    THEN IF tokens.secondary
         THEN [pc |-> "secondary_wait", log |-> Append(lg, <<"req", "secondary">>)]
         ELSE FromTertiary(df, frm, Append(lg, <<"notoken", "secondary">>))
    ELSE FromTertiary(df, frm, Append(lg, <<"skip", "secondary">>))

\* The run r continues at position `nxt` (a result of FromSecondary/FromTertiary);
\* on "finish" fetchReniecDataAndPopulate clears isReniecSearching and returns, and
\* searchSocioByDni clears isDniSearching and returns.
ContinueAfter(r, df, nxt, ans) ==
    IF nxt.pc = "finish"
    THEN /\ isReniecSearching' = FALSE
         /\ isDniSearching' = FALSE
         /\ run' = [run EXCEPT ![r] = [pc |-> "returned", dataFound |-> df,
                                       log |-> nxt.log,
                                       reniecAtRet |-> Flag(FALSE),
                                       dniAtRet |-> Flag(FALSE),
                                       db |-> "n/a"]]
    ELSE /\ isReniecSearching' = TRUE
         /\ UNCHANGED isDniSearching
         /\ run' = [run EXCEPT ![r] = [@ EXCEPT !.pc = nxt.pc, !.dataFound = df,
                                                !.log = nxt.log, !.db = ans]]

Continue(r, df, nxt) == ContinueAfter(r, df, nxt, run[r].db)

\* onBlur of the DNI input: searchSocioByDni(watchedDni) up to its first await
searchSocioByDni(r) ==
    /\ focus = "lookup"
    /\ run[r].pc = "idle"
    /\ IF ~dniLen8
       THEN /\ form' = ClearInvalid(form)
            /\ run' = [run EXCEPT ![r] = [@ EXCEPT !.pc = "returned",
                                          !.dniAtRet = Flag(isDniSearching),
                                          !.db = "unasked"]]
            /\ UNCHANGED isDniSearching
       ELSE /\ isDniSearching' = TRUE
            /\ form' = ClearValid(form)
            /\ run' = [run EXCEPT ![r] = [@ EXCEPT !.pc = "db_wait"]]
    /\ UNCHANGED <<notLookup, dniLen8, isReniecSearching, tokens, edits>>

\* fetchReniecDataAndPopulate from its entry to the first await (or to its return)
EnterReniec(r, frm, ans) ==
    /\ form' = frm
    /\ IF tokens.primary
       THEN /\ isReniecSearching' = TRUE
            /\ UNCHANGED isDniSearching
            /\ run' = [run EXCEPT ![r] = [@ EXCEPT !.pc = "primary_wait",
                                          !.log = <<<<"req", "primary">>>>,
                                          !.db = ans]]
       ELSE ContinueAfter(r, FALSE,
                FromSecondary(FALSE, frm, <<<<"notoken", "primary">>>>), ans)

\* the local database lookup answers with a record: fields populated, no API call
DbFound(r) ==
    /\ focus = "lookup"
    /\ run[r].pc = "db_wait"
    /\ form' = [f \in LookupFields |-> "db"]
    /\ isDniSearching' = FALSE
    /\ run' = [run EXCEPT ![r] = [@ EXCEPT !.pc = "returned",
                                  !.dniAtRet = Flag(FALSE)]]
    /\ UNCHANGED <<notLookup, dniLen8, isReniecSearching, tokens, edits>>

\* the lookup answers "no rows" (PGRST116), or with an error, or the call rejects
DbNotFound(r) ==
    /\ focus = "lookup"
    /\ run[r].pc = "db_wait"
    /\ EnterReniec(r, form, "none")
    /\ UNCHANGED <<notLookup, dniLen8, tokens, edits>>

\* the lookup answers with a record whose fechaNacimiento makes format() throw:
\* the three name fields are already assigned, dataFoundInDb stays false
DbMalformed(r) ==
    /\ focus = "lookup"
    /\ run[r].pc = "db_wait"
    /\ EnterReniec(r, [form EXCEPT !["nombres"] = "db", !["apellidoPaterno"] = "db",
                                   !["apellidoMaterno"] = "db"], "record")
    /\ UNCHANGED <<notLookup, dniLen8, tokens, edits>>

\* primary answers success with data
PrimaryData(r, shape) ==
    /\ focus = "lookup"
    /\ run[r].pc = "primary_wait"
    /\ LET frm == ApplyPrimary(form, shape)
           lg  == Append(run[r].log, <<"ok", "primary">>)
       IN /\ form' = frm
          /\ Continue(r, TRUE, FromSecondary(TRUE, frm, lg))
    /\ UNCHANGED <<notLookup, dniLen8, tokens, edits>>

\* primary answers without success/data
PrimaryNoData(r) ==
    /\ focus = "lookup"
    /\ run[r].pc = "primary_wait"
    /\ Continue(r, FALSE, FromSecondary(FALSE, form,
                             Append(run[r].log, <<"ok", "primary">>)))
    /\ UNCHANGED <<notLookup, form, dniLen8, tokens, edits>>

\* the primary request rejects (network, HTTP status, malformed body): catch, log
PrimaryFailure(r) ==
    /\ focus = "lookup"
    /\ run[r].pc = "primary_wait"
    /\ Continue(r, FALSE, FromSecondary(FALSE, form,
                             Append(run[r].log, <<"fail", "primary">>)))
    /\ UNCHANGED <<notLookup, form, dniLen8, tokens, edits>>

SecondaryData(r, shape) ==
    /\ focus = "lookup"
    /\ run[r].pc = "secondary_wait"
    /\ LET frm == ApplySecondary(form, shape)
           lg  == Append(run[r].log, <<"ok", "secondary">>)
       IN /\ form' = frm
          /\ Continue(r, TRUE, FromTertiary(TRUE, frm, lg))
    /\ UNCHANGED <<notLookup, dniLen8, tokens, edits>>

SecondaryNoData(r) ==
    /\ focus = "lookup"
    /\ run[r].pc = "secondary_wait"
    /\ Continue(r, run[r].dataFound,
                FromTertiary(run[r].dataFound, form,
                             Append(run[r].log, <<"ok", "secondary">>)))
    /\ UNCHANGED <<notLookup, form, dniLen8, tokens, edits>>

\* faulty variant: a rejected secondary request is issued again
SecondaryFailureRetry(r) ==
    /\ focus = "lookup"
    /\ run[r].pc = "secondary_wait"
    /\ Len(run[r].log) < 8
    /\ run' = [run EXCEPT ![r] = [@ EXCEPT !.log = Append(Append(@,
                                     <<"fail", "secondary">>), <<"req", "secondary">>)]]
    /\ UNCHANGED <<notLookup, form, dniLen8, isDniSearching, isReniecSearching, tokens, edits>>

\* faulty variant: a rejected secondary request ends the lookup at once
SecondaryFailureAbort(r) ==
    /\ focus = "lookup"
    /\ run[r].pc = "secondary_wait"
    /\ UNCHANGED <<isReniecSearching, isDniSearching>>
    /\ run' = [run EXCEPT ![r] = [@ EXCEPT !.pc = "returned",
                                  !.log = Append(@, <<"fail", "secondary">>),
                                  !.reniecAtRet = Flag(isReniecSearching),
                                  !.dniAtRet = Flag(isDniSearching)]]
    /\ UNCHANGED <<notLookup, form, dniLen8, tokens, edits>>

\* the secondary request rejects: catch, log, go on to the tertiary guard
SecondaryFailure(r) ==
    /\ focus = "lookup"
    /\ run[r].pc = "secondary_wait"
    /\ Continue(r, run[r].dataFound,
                FromTertiary(run[r].dataFound, form,
                             Append(run[r].log, <<"fail", "secondary">>)))
    /\ UNCHANGED <<notLookup, form, dniLen8, tokens, edits>>

TertiaryData(r, shape) ==
    /\ focus = "lookup"
    /\ run[r].pc = "tertiary_wait"
    /\ form' = ApplyTertiary(form, shape)
    /\ Continue(r, TRUE, [pc |-> "finish",
                          log |-> Append(run[r].log, <<"ok", "tertiary">>)])
    /\ UNCHANGED <<notLookup, dniLen8, tokens, edits>>

TertiaryNoData(r) ==
    /\ focus = "lookup"
    /\ run[r].pc = "tertiary_wait"
    /\ Continue(r, run[r].dataFound,
                [pc |-> "finish", log |-> Append(run[r].log, <<"ok", "tertiary">>)])
    /\ UNCHANGED <<notLookup, form, dniLen8, tokens, edits>>

TertiaryFailure(r) ==
    /\ focus = "lookup"
    /\ run[r].pc = "tertiary_wait"
    /\ Continue(r, run[r].dataFound,
                [pc |-> "finish", log |-> Append(run[r].log, <<"fail", "tertiary">>)])
    /\ UNCHANGED <<notLookup, form, dniLen8, tokens, edits>>

\* the returned promise is dropped; the slot serves a later blur
ReleaseRun(r) ==
    /\ focus = "lookup"
    /\ run[r].pc = "returned"
    /\ run' = [run EXCEPT ![r] = IdleRun]
    /\ UNCHANGED <<notLookup, form, dniLen8, isDniSearching, isReniecSearching, tokens, edits>>

\* the user types in the DNI input (readOnly during any search)
EditDni ==
    /\ focus = "lookup"
    /\ ~(isDniSearching \/ isReniecSearching)
    /\ dniLen8' = ~dniLen8
    /\ UNCHANGED <<notLookup, form, isDniSearching, isReniecSearching, tokens, run, edits>>

\* the user types in a personal-data input (readOnly while isReniecSearching)
EditField(f) ==
    /\ focus = "lookup"
    /\ ~isReniecSearching
    /\ edits < MaxEdits
    /\ form[f] # "user"
    /\ form' = [form EXCEPT ![f] = "user"]
    /\ edits' = edits + 1
    /\ UNCHANGED <<notLookup, dniLen8, isDniSearching, isReniecSearching, tokens, run>>

LookupUnused ==
    /\ form = [f \in LookupFields |-> ""]
    /\ dniLen8 = FALSE
    /\ isDniSearching = FALSE
    /\ isReniecSearching = FALSE
    /\ tokens = [a \in ApiSet |-> FALSE]
    /\ run = [r \in Runs |-> IdleRun]
    /\ edits = 0

InitLookup ==
    /\ focus = "lookup"
    /\ form = [f \in LookupFields |-> ""]
    /\ dniLen8 \in BOOLEAN
    /\ isDniSearching = FALSE
    /\ isReniecSearching = FALSE
    /\ tokens \in [ApiSet -> BOOLEAN]
    /\ run = [r \in Runs |-> IdleRun]
    /\ edits = 0
    /\ SubmitUnused
    /\ DocsUnused
    /\ TableUnused
    /\ RecibosUnused
    /\ last = NoEvent

NextLookup ==
    \/ \E r \in Runs : searchSocioByDni(r)
    \/ \E r \in Runs : DbFound(r)
    \/ \E r \in Runs : DbNotFound(r)
    \/ \E r \in Runs : DbMalformed(r)
    \/ \E r \in Runs : \E sh \in PrimaryShapes : PrimaryData(r, sh)
    \/ \E r \in Runs : PrimaryNoData(r)
    \/ \E r \in Runs : PrimaryFailure(r)
    \/ \E r \in Runs : \E sh \in SecondaryShapes : SecondaryData(r, sh)
    \/ \E r \in Runs : SecondaryNoData(r)
    \/ \E r \in Runs : SecondaryFailure(r)
    \/ \E r \in Runs : \E sh \in TertiaryShapes : TertiaryData(r, sh)
    \/ \E r \in Runs : TertiaryNoData(r)
    \/ \E r \in Runs : TertiaryFailure(r)
    \/ \E r \in Runs : ReleaseRun(r)
    \/ EditDni
    \/ \E f \in {"nombres", "direccionDNI"} : EditField(f)

SpecLookup == InitLookup /\ [][NextLookup]_vars

-----------------------------------------------------------------------------
(* ------------------- Properties of the lookup chain -------------------- *)

InLog(lg, e) == \E i \in DOMAIN lg : lg[i] = e
FinishedKinds == {"ok", "fail", "notoken", "skip"}
ReachedKinds == {"req", "notoken", "skip"}
Requests(lg) == SelectSeq(lg, LAMBDA e : e[1] = "req")

\* C1: in one run of fetchReniecDataAndPopulate the requests issued form a
\* subsequence of <primary, secondary, tertiary>: each API is requested at most once,
\* in chain order, the secondary only after the primary attempt has finished and the
\* tertiary only after the secondary step has finished.
C1_OrderedFallback ==
    \A r \in Runs :
        LET lg == run[r].log
            rq == Requests(lg)
        IN /\ \A i, j \in DOMAIN rq :
                 i < j => ApiIndex(rq[i][2]) < ApiIndex(rq[j][2])
           /\ \A i \in DOMAIN lg :
                 (lg[i][1] = "req" /\ lg[i][2] # "primary") =>
                    \E j \in 1..(i - 1) :
                        /\ lg[j][1] \in FinishedKinds
                        /\ ApiIndex(lg[j][2]) = ApiIndex(lg[i][2]) - 1

\* C1 witness: a run that requested all three APIs has returned
C1_Witness ==
    \E r \in Runs :
        /\ run[r].pc = "returned"
        /\ Len(Requests(run[r].log)) = 3

\* C2: when the secondary or the tertiary response is applied, every field that is
\* non-empty at that moment keeps its value (only empty fields are written).
C2_FillOnlyEmpty ==
    [][\A r \in Runs :
          (run[r].pc \in {"secondary_wait", "tertiary_wait"} /\ run'[r].pc # run[r].pc)
          => \A f \in LookupFields : form[f] # "" => form'[f] = form[f]]_vars

\* C2 witness: the secondary step has filled a field next to one the primary filled
C2_Witness ==
    \E r \in Runs :
        /\ InLog(run[r].log, <<"ok", "secondary">>)
        /\ \E f, g \in FieldsToCheck : form[f] = "primary" /\ form[g] = "secondary"

IsFailure(e) == e[1] = "fail" \/ e = <<"notoken", "primary">>

\* C7: a failing API request (or the missing primary token) does not abort the
\* lookup: every later step of the chain is still reached (its request is issued
\* when its guard holds and its token is configured), isReniecSearching is false
\* when fetchReniecDataAndPopulate returns and isDniSearching is false when
\* searchSocioByDni returns.
C7_FailureDoesNotAbort ==
    \A r \in Runs :
        run[r].pc = "returned" =>
            LET lg == run[r].log
            IN /\ run[r].reniecAtRet # "busy"
               /\ run[r].dniAtRet = "clear"
               /\ \A i \in DOMAIN lg :
                     IsFailure(lg[i]) =>
                        \A a \in ApiSet :
                            ApiIndex(a) > ApiIndex(lg[i][2]) =>
                                \E k \in (i + 1)..Len(lg) :
                                    lg[k][2] = a /\ lg[k][1] \in ReachedKinds

\* C7 witness: primary and secondary both failed and the tertiary was still requested
C7_Witness ==
    \E r \in Runs :
        /\ run[r].pc = "returned"
        /\ InLog(run[r].log, <<"fail", "primary">>)
        /\ InLog(run[r].log, <<"fail", "secondary">>)
        /\ InLog(run[r].log, <<"req", "tertiary">>)

\* the run is waiting for the answer of an external API
AwaitsApi(r) == run[r].pc \in {"primary_wait", "secondary_wait", "tertiary_wait"}

\* C20 (as claimed): the external APIs are asked only after the local lookup has
\* answered, and only if it answered without a record; when the database returns a
\* record no API is called; for a DNI that is not 8 characters long neither the
\* database nor any API is called.
C20_ApisOnlyAfterDbMiss ==
    \A r \in Runs :
        /\ run[r].pc = "db_wait" => run[r].log = <<>>
        /\ AwaitsApi(r) => run[r].db = "none"
        /\ run[r].db = "unasked" => (run[r].pc = "returned" /\ run[r].log = <<>>)

\* the part of C20 the code satisfies: no API is asked before the lookup has answered,
\* and none for a DNI that is not 8 characters long
C20_ApisAfterLookup ==
    \A r \in Runs :
        /\ run[r].pc = "db_wait" => run[r].log = <<>>
        /\ AwaitsApi(r) => run[r].db \in {"none", "record"}
        /\ run[r].db = "unasked" => (run[r].pc = "returned" /\ run[r].log = <<>>)

\* the step issues run r's request to API a
RequestsNow(r, a) ==
    /\ ~InLog(run[r].log, <<"req", a>>)
    /\ InLog(run'[r].log, <<"req", a>>)

\* C21: a step of a lookup issues the request to the secondary API, and likewise to
\* the tertiary, only if no earlier API of that lookup returned data or one of the
\* eight checked fields is empty at that moment; and the step in which the primary
\* answers with data that leaves none of the eight fields empty ends the lookup with
\* the primary as the only API requested.
C21_FallbackOnlyWhenNeeded ==
    [][\A r \in Runs :
          /\ \A a \in {"secondary", "tertiary"} :
                RequestsNow(r, a) =>
                    ~run'[r].dataFound \/ checkMissingFields(form')
          /\ ( /\ run[r].pc = "primary_wait"
               /\ run'[r].pc # "primary_wait"
               /\ run'[r].dataFound
               /\ \A f \in FieldsToCheck : form'[f] # "" )
             => /\ run'[r].pc = "returned"
                /\ Requests(run'[r].log) = <<<<"req", "primary">>>>
                /\ InLog(run'[r].log, <<"skip", "secondary">>)
                /\ InLog(run'[r].log, <<"skip", "tertiary">>)]_vars

\* a lookup has returned after the primary filled all eight fields, both later APIs
\* skipped although their tokens are configured
C21_Witness ==
    \E r \in Runs :
        /\ run[r].pc = "returned"
        /\ run[r].dataFound
        /\ tokens.secondary /\ tokens.tertiary
        /\ run[r].log = << <<"req", "primary">>, <<"ok", "primary">>,
                           <<"skip", "secondary">>, <<"skip", "tertiary">> >>
        /\ \A f \in FieldsToCheck : form[f] = "primary"

\* a lookup awaits the tertiary API although an earlier API returned data, because a
\* checked field is still empty
C21_WitnessStillMissing ==
    \E r \in Runs :
        /\ run[r].pc = "tertiary_wait"
        /\ run[r].dataFound
        /\ checkMissingFields(form)

-----------------------------------------------------------------------------
(* ------------ SocioTitularRegistrationForm: confirmed submission -------- *)

Dnis == {"d1", "d2"}
\* values of an optional/nullable text field: null (or undefined), '', blanks, text
ObsValues == {"null", "", " ", "text"}

Falsy(v) == v \in {"null", ""}
Trim(v) == IF v = " " THEN "" ELSE v

\* the values the user may have typed when pressing "submit", per scenario: the
\* concurrency scenario varies the DNI, the validation scenario the observations
SubmitInputs ==
    IF focus = "submit"
    THEN [dni : Dnis, baseValid : {TRUE}, isObservado : {FALSE}, observacion : {""},
          isPaymentObserved : {FALSE}, paymentObservationDetail : {""}]
    ELSE [dni : {"d1"}, baseValid : BOOLEAN, isObservado : BOOLEAN,
          observacion : ObsValues, isPaymentObserved : BOOLEAN,
          paymentObservationDetail : ObsValues]

ActiveSessions == IF focus = "submit" THEN Sessions ELSE {"a"}

\* faulty variant: the schema without its superRefine
SchemaNoRefine(v) == v.baseValid

\* formSchema: the field rules (abstracted as baseValid) and personalDataSchema's
\* superRefine: a flagged observation needs a non-blank detail
Schema(v) ==
    /\ v.baseValid
    /\ ~(v.isObservado /\ (Falsy(v.observacion) \/ Trim(v.observacion) = ""))
    /\ ~(v.isPaymentObserved /\ (Falsy(v.paymentObservationDetail)
                                   \/ Trim(v.paymentObservationDetail) = ""))

\* onSubmit's conditional clean-up of the form state before form.trigger()
Cleaned(v) ==
    [v EXCEPT !.observacion = IF v.isObservado THEN @ ELSE "null",
              !.paymentObservationDetail = IF v.isPaymentObserved THEN @ ELSE "null"]

\* dataToSave of handleConfirmSubmit (columns relevant to the invariants)
DataToSave(v) ==
    [dni |-> v.dni,
     isObservado |-> v.isObservado,
     observacion |-> IF v.isObservado THEN v.observacion ELSE "null",
     is_payment_observed |-> v.isPaymentObserved,
     payment_observation_detail |->
         IF v.isPaymentObserved THEN v.paymentObservationDetail ELSE "null"]

Row(id, d) == [id |-> id, dni |-> d.dni, isObservado |-> d.isObservado,
               observacion |-> d.observacion,
               is_payment_observed |-> d.is_payment_observed,
               payment_observation_detail |-> d.payment_observation_detail]

PlainRow(id, dni) == [id |-> id, dni |-> dni, isObservado |-> FALSE,
                      observacion |-> "null", is_payment_observed |-> FALSE,
                      payment_observation_detail |-> "null"]

Event(h, who, ev, toast, busy) ==
    [h |-> h, who |-> who, ev |-> ev, toast |-> toast, busy |-> busy]

\* the registration form is opened: to create (socioId undefined, written 0) or to edit a socio
OpenForm(s, sid) ==
    /\ focus \in {"submit", "validate"}
    /\ s \in ActiveSessions
    /\ ~sess[s].mounted
    /\ sess[s].pc = "idle"
    /\ sess' = [sess EXCEPT ![s] = [ClosedSession EXCEPT !.mounted = TRUE,
                                                         !.socioId = sid]]
    /\ last' = Event("OpenForm", s, "opened", "none", FALSE)
    /\ UNCHANGED <<notSubmit, socios, nextId>>

\* handleSubmit(onSubmit): the resolver validates; onSubmit cleans the form state,
\* re-validates it with form.trigger() and opens the confirmation dialog
onSubmit(s, values) ==
    /\ focus \in {"submit", "validate"}
    /\ sess[s].mounted
    /\ ~sess[s].isConfirmDialogOpen
    /\ IF ~Schema(values)
       THEN /\ last' = Event("onSubmit", s, "invalid", "none", FALSE)
            /\ UNCHANGED sess
       ELSE IF ~Schema(Cleaned(values))
       THEN /\ last' = Event("onSubmit", s, "invalid", "error", FALSE)
            /\ UNCHANGED sess
       ELSE /\ sess' = [sess EXCEPT ![s] = [@ EXCEPT !.dataToConfirm = values,
                                                     !.isConfirmDialogOpen = TRUE,
                                                     !.dniError = FALSE]]
            /\ last' = Event("onSubmit", s, "dialog", "none", FALSE)
    /\ UNCHANGED <<notSubmit, socios, nextId>>

\* the dialog's onClose
handleCloseConfirmationOnly(s) ==
    /\ focus \in {"submit", "validate"}
    /\ sess[s].mounted
    /\ sess[s].isConfirmDialogOpen
    /\ sess' = [sess EXCEPT ![s] = [@ EXCEPT !.isConfirmDialogOpen = FALSE,
                                             !.dataToConfirm = NoData,
                                             !.isConfirmingSubmission = FALSE]]
    /\ last' = Event("handleCloseConfirmationOnly", s, "closed", "none", FALSE)
    /\ UNCHANGED <<notSubmit, socios, nextId>>

\* handleConfirmSubmit up to the DNI uniqueness query
handleConfirmSubmit(s) ==
    /\ focus \in {"submit", "validate"}
    /\ sess[s].mounted
    /\ sess[s].pc = "idle"
    /\ IF sess[s].dataToConfirm = NoData
       THEN /\ last' = Event("handleConfirmSubmit", s, "no_data", "none",
                             sess[s].isConfirmingSubmission)
            /\ UNCHANGED sess
       ELSE /\ sess' = [sess EXCEPT ![s] = [@ EXCEPT !.isConfirmingSubmission = TRUE,
                                                     !.pc = "dni_check",
                                                     !.snap = sess[s].dataToConfirm]]
            /\ last' = Event("handleConfirmSubmit", s, "checking", "none", TRUE)
    /\ UNCHANGED <<notSubmit, socios, nextId>>

\* catch + finally of handleConfirmSubmit
ConfirmCaught(s) ==
    /\ sess' = [sess EXCEPT ![s] = [@ EXCEPT !.isConfirmingSubmission = FALSE,
                                             !.pc = "idle", !.snap = NoData,
                                             !.payload = NoData]]
    /\ last' = Event("handleConfirmSubmit", s, "failed", "error", FALSE)

\* the uniqueness query fails (dniCheckError, or the call rejects)
DniCheckFailure(s) ==
    /\ focus \in {"submit", "validate"}
    /\ sess[s].pc = "dni_check"
    /\ ConfirmCaught(s)
    /\ UNCHANGED <<notSubmit, socios, nextId>>

IsDuplicateDni(existing, first, socioId) ==
    existing # {} /\ (socioId = 0 \/ first.id # socioId)

\* the uniqueness query answers with the rows holding the DNI (in any order)
DniCheckAnswer(s) ==
    /\ focus \in {"submit", "validate"}
    /\ sess[s].pc = "dni_check"
    /\ LET existing == {r \in socios : r.dni = sess[s].snap.dni}
       IN \E first \in (IF existing = {} THEN {NoData} ELSE existing) :
            IF IsDuplicateDni(existing, first, sess[s].socioId)
            THEN /\ sess' = [sess EXCEPT ![s] = [@ EXCEPT
                                !.dniError = TRUE,
                                !.isConfirmDialogOpen = FALSE,
                                !.isConfirmingSubmission = FALSE,
                                !.pc = "idle", !.snap = NoData]]
                 /\ last' = Event("handleConfirmSubmit", s, "duplicate", "error", FALSE)
            ELSE /\ sess' = [sess EXCEPT ![s] = [@ EXCEPT
                                !.pc = IF sess[s].socioId = 0
                                       THEN "insert_wait" ELSE "update_wait",
                                !.payload = DataToSave(sess[s].snap)]]
                 /\ last' = Event("handleConfirmSubmit", s, "writing", "none", TRUE)
    /\ UNCHANGED <<notSubmit, socios, nextId>>

\* insert / update fails: catch, toast.error, finally
WriteFailure(s) ==
    /\ focus \in {"submit", "validate"}
    /\ sess[s].pc \in {"insert_wait", "update_wait"}
    /\ ConfirmCaught(s)
    /\ UNCHANGED <<notSubmit, socios, nextId>>

\* the insert succeeds: form reset, dialog closed
InsertSuccess(s) ==
    /\ focus \in {"submit", "validate"}
    /\ sess[s].pc = "insert_wait"
    /\ socios' = socios \cup {Row(nextId, sess[s].payload)}
    /\ nextId' = nextId + 1
    /\ sess' = [sess EXCEPT ![s] = [@ EXCEPT !.isConfirmDialogOpen = FALSE,
                                             !.dataToConfirm = NoData,
                                             !.isConfirmingSubmission = FALSE,
                                             !.pc = "idle", !.snap = NoData,
                                             !.payload = NoData]]
    /\ last' = Event("handleConfirmSubmit", s, "inserted", "success", FALSE)
    /\ UNCHANGED notSubmit

\* the update succeeds: onSuccess(), onClose() (the form goes away)
UpdateSuccess(s) ==
    /\ focus \in {"submit", "validate"}
    /\ sess[s].pc = "update_wait"
    /\ socios' = {IF r.id = sess[s].socioId THEN Row(r.id, sess[s].payload) ELSE r
                    : r \in socios}
    /\ sess' = [sess EXCEPT ![s] = ClosedSession]
    /\ last' = Event("handleConfirmSubmit", s, "updated", "success", FALSE)
    /\ UNCHANGED <<notSubmit, nextId>>

InitialTables == { {}, {PlainRow(1, "d1")}, {PlainRow(1, "d1"), PlainRow(2, "d2")} }

InitSubmit ==
    /\ focus = "submit"
    /\ LookupUnused
    /\ DocsUnused
    /\ TableUnused
    /\ RecibosUnused
    /\ socios \in InitialTables
    /\ nextId = Cardinality(socios) + 1
    /\ sess = [s \in Sessions |-> ClosedSession]
    /\ last = NoEvent

InitValidate ==
    /\ focus = "validate"
    /\ LookupUnused
    /\ DocsUnused
    /\ TableUnused
    /\ RecibosUnused
    /\ socios \in {{}, {PlainRow(1, "d1")}}
    /\ nextId = Cardinality(socios) + 1
    /\ sess = [s \in Sessions |-> ClosedSession]
    /\ last = NoEvent

NextSubmit ==
    \/ \E s \in Sessions : \E sid \in {0} \cup {r.id : r \in socios} :
          OpenForm(s, sid)
    \/ \E s \in Sessions : \E v \in SubmitInputs : onSubmit(s, v)
    \/ \E s \in Sessions : handleCloseConfirmationOnly(s)
    \/ \E s \in Sessions : handleConfirmSubmit(s)
    \/ \E s \in Sessions : DniCheckFailure(s)
    \/ \E s \in Sessions : DniCheckAnswer(s)
    \/ \E s \in Sessions : WriteFailure(s)
    \/ \E s \in Sessions : nextId <= MaxRows /\ InsertSuccess(s)
    \/ \E s \in Sessions : UpdateSuccess(s)

SpecSubmit == InitSubmit /\ [][NextSubmit]_vars
SpecValidate == InitValidate /\ [][NextSubmit]_vars

-----------------------------------------------------------------------------
(* ------------------- Properties of the submission ---------------------- *)

\* C3 (as claimed): socio_titulares never holds two records with the same DNI
C3_DniUnique ==
    \A r1, r2 \in socios : r1.dni = r2.dni => r1.id = r2.id

NonBlank(v) == ~Falsy(v) /\ Trim(v) # ""
FlagsHaveDetail(isObs, obs, isPay, det) ==
    /\ isObs => NonBlank(obs)
    /\ isPay => NonBlank(det)

\* C4: the confirmation dialog opens only for values in which isObservado implies a
\* non-blank observacion and isPaymentObserved a non-blank paymentObservationDetail,
\* and handleConfirmSubmit never writes a record flagged without its detail.
C4_FlaggedNeedsDetail ==
    /\ \A s \in Sessions :
          LET d == sess[s].dataToConfirm
              w == sess[s].payload
          IN /\ d # NoData => FlagsHaveDetail(d.isObservado, d.observacion,
                                 d.isPaymentObserved, d.paymentObservationDetail)
             /\ w # NoData => FlagsHaveDetail(w.isObservado, w.observacion,
                                 w.is_payment_observed, w.payment_observation_detail)
    /\ \A r \in socios : FlagsHaveDetail(r.isObservado, r.observacion,
                             r.is_payment_observed, r.payment_observation_detail)

\* C4 witness: a record flagged on both observations has been written
C4_Witness ==
    /\ last.h = "handleConfirmSubmit" /\ last.ev \in {"inserted", "updated"}
    /\ \E r \in socios : r.isObservado /\ r.is_payment_observed

\* some record other than the one being edited holds the DNI
OtherHasDni(dni, socioId) == \E r \in socios : r.dni = dni /\ r.id # socioId

\* C11 (as claimed): handleConfirmSubmit goes on to its insert or update exactly when, at
\* the time of its check, no record other than the one being edited holds the submitted
\* DNI, whatever rows the check returned and in whatever order; when another record
\* holds it, nothing is written, the dni error is set, the dialog is closed and
\* isConfirmingSubmission is cleared.
C11_WriteIffDniFree ==
    /\ (last.h = "handleConfirmSubmit" /\ last.ev = "writing") =>
          ~OtherHasDni(sess[last.who].payload.dni, sess[last.who].socioId)
    /\ (last.h = "handleConfirmSubmit" /\ last.ev = "duplicate") =>
          /\ sess[last.who].dniError
          /\ ~sess[last.who].isConfirmDialogOpen
          /\ ~sess[last.who].isConfirmingSubmission
          /\ sess[last.who].pc = "idle"

\* the rejecting half of C11 alone, which the code does satisfy: a submission is turned
\* down only when another record holds the DNI, and then as described
C11_RejectsOnlyDuplicates ==
    [][\A s \in Sessions :
        (sess[s].pc = "dni_check" /\ last'.h = "handleConfirmSubmit"
            /\ last'.ev = "duplicate" /\ last'.who = s) =>
                /\ OtherHasDni(sess[s].snap.dni, sess[s].socioId)
                /\ sess'[s].dniError
                /\ ~sess'[s].isConfirmDialogOpen
                /\ ~sess'[s].isConfirmingSubmission
                /\ sess'[s].pc = "idle"
                /\ socios' = socios]_vars

-----------------------------------------------------------------------------
(* --------------------------- PartnerDocuments -------------------------- *)

\* The socio_documentos records that may exist, with their columns. link: "good" is
\* a storage URL .../public/<bucket>/<path>, "odd" a URL without that layout, "none"
\* is null. receipt: the transaction_type of the ingreso a Comprobante refers to.
DocIds == 1..4
DocAttr(d) ==
    CASE d = 1 -> [socio |-> "s1", tipo |-> "Planos de ubicación", link |-> "good",
                   receipt |-> "none"]
      [] d = 2 -> [socio |-> "s1", tipo |-> "Memoria descriptiva", link |-> "none",
                   receipt |-> "none"]
      [] d = 3 -> [socio |-> "s2", tipo |-> "Ficha", link |-> "odd",
                   receipt |-> "none"]
      [] d = 4 -> [socio |-> "s2", tipo |-> "Comprobante de Pago", link |-> "good",
                   receipt |-> "Gasto"]

allowedDocumentTypes == {"Planos de ubicación", "Memoria descriptiva", "Ficha",
                         "Contrato", "Comprobante de Pago"}
validTransactionTypes == {"Venta", "Ingreso", "Recibo de Pago"}
RequiredTypes == {"Planos de ubicación", "Memoria descriptiva"}

\* fetchAllData: filteredSocioDocuments of one socio
filteredSocioDocuments(s, present) ==
    {d \in present :
        /\ DocAttr(d).socio = s
        /\ DocAttr(d).tipo \in allowedDocumentTypes
        /\ DocAttr(d).link # "none"
        /\ DocAttr(d).tipo = "Comprobante de Pago"
              => DocAttr(d).receipt \in validTransactionTypes}

\* hasPlanos || hasMemoria over a list of documents; also hasRequiredDocs
hasRequiredDocs(ds) ==
    \E d \in ds : DocAttr(d).tipo \in RequiredTypes /\ DocAttr(d).link # "none"

\* faulty variant: the stored flag alone, documents ignored
finalIsLoteMedidoStoredOnly(s, present, stored) == stored = "true"

\* fetchAllData: finalIsLoteMedido = isMeasuredByDocument || (is_lote_medido ?? false)
finalIsLoteMedido(s, present, stored) ==
    hasRequiredDocs(filteredSocioDocuments(s, present)) \/ stored = "true"

\* fetchAllData: processedData
processedData(present, flags) ==
    { [id |-> s,
       is_lote_medido |-> finalIsLoteMedido(s, present, flags[s]),
       socio_documentos |-> filteredSocioDocuments(s, present)] : s \in SocioIds }

LocalIds == {r.id : r \in sociosConDocumentos}
LocalRow(s) == CHOOSE r \in sociosConDocumentos : r.id = s

\* prev.map(s => s.id === socioId ? {...s, is_lote_medido: value} : s)
SetLocalMedido(rows, s, value) ==
    {IF r.id = s THEN [r EXCEPT !.is_lote_medido = value] ELSE r : r \in rows}

Str(b) == IF b THEN "true" ELSE "false"

\* what a step of the page notified and which delete call it issued
DocEvent(h, who, ev, toast, busy, call) ==
    [h |-> h, who |-> who, ev |-> ev, toast |-> toast, busy |-> busy, call |-> call]

\* the table is on screen (not the spinner, not the error page)
TableShown == ~loading /\ ~error

\* fetchAllData up to its await
StartFetch ==
    /\ loading' = TRUE
    /\ fetches' = fetches + 1

\* the three queries answer: processedData replaces the local list
FetchOk ==
    /\ focus \in {"docs", "overlap"}
    /\ fetches > 0
    /\ fetches' = fetches - 1
    /\ sociosConDocumentos' = processedData(docs, loteFlag)
    /\ error' = FALSE
    /\ loading' = FALSE
    /\ last' = DocEvent("fetchAllData", "-", "loaded", "none", isBulkUpdating, "none")
    /\ UNCHANGED <<notDocs, docsBackend, rowSelection, isBulkUpdating, isAdmin,
                   deleteConfirmState, isDeleting, toggles, bulk, del>>

\* one of the queries fails: the list is emptied, the error page is shown
FetchFail ==
    /\ focus = "docs"
    /\ fetches > 0
    /\ fetches' = fetches - 1
    /\ sociosConDocumentos' = {}
    /\ error' = TRUE
    /\ loading' = FALSE
    /\ last' = DocEvent("fetchAllData", "-", "failed", "error", isBulkUpdating, "none")
    /\ UNCHANGED <<notDocs, docsBackend, rowSelection, isBulkUpdating, isAdmin,
                   deleteConfirmState, isDeleting, toggles, bulk, del>>

\* UploadDocumentModal stored a required document: onUploadSuccess refetches
onUploadSuccess(d) ==
    /\ focus = "docs"
    /\ TableShown
    /\ d \notin docs
    /\ DocAttr(d).tipo \in RequiredTypes /\ DocAttr(d).link = "good"
    /\ fetches < MaxFetches
    /\ docs' = docs \cup {d}
    /\ files' = files \cup {d}
    /\ StartFetch
    /\ last' = DocEvent("onUploadSuccess", "-", "uploaded", "info", isBulkUpdating, "none")
    /\ UNCHANGED <<notDocs, loteFlag, sociosConDocumentos, error, rowSelection,
                   isBulkUpdating, isAdmin, deleteConfirmState, isDeleting, toggles,
                   bulk, del>>

\* faulty variant: the optimistic value is kept after a failure
RevertNone(rows, t) == rows

\* Revert optimistic update (catch branch of handleUpdateLoteMedido)
RevertOptimistic(rows, t) == SetLocalMedido(rows, t.socio, t.original)

\* faulty variant: the handlers do not look at the role
PermissionNotChecked == FALSE

\* if (!isAdmin) of handleUpdateLoteMedido and handleBulkUpdateLoteMedido
PermissionDenied == ~isAdmin

\* requests of handleUpdateLoteMedido allowed in flight at once
ToggleLimit == IF focus = "overlap" THEN MaxOverlap ELSE MaxToggles

\* a call for socio s starts while another one for s is in flight (kept track of in
\* the behaviours that let the calls overlap)
Overlaps(s) == focus = "overlap" /\ \E t \in toggles : t.socio = s

\* handleUpdateLoteMedido(socioId, newValue) up to its await; a request in flight
\* remembers whether another one for the same socio was in flight with it
handleUpdateLoteMedido(s, newValue) ==
    /\ focus \in {"docs", "overlap"}
    /\ TableShown
    /\ s \in LocalIds
    /\ newValue = ~LocalRow(s).is_lote_medido    \* the checkbox reports its new state
    /\ IF PermissionDenied
       THEN /\ last' = DocEvent("handleUpdateLoteMedido", s, "denied", "error",
                              isBulkUpdating, "none")
            /\ UNCHANGED <<sociosConDocumentos, toggles>>
       ELSE IF ~newValue /\ hasRequiredDocs(LocalRow(s).socio_documentos)
       THEN /\ last' = DocEvent("handleUpdateLoteMedido", s, "blocked", "warning",
                              isBulkUpdating, "none")
            /\ UNCHANGED <<sociosConDocumentos, toggles>>
       ELSE /\ Cardinality(toggles) < ToggleLimit
            /\ sociosConDocumentos' = SetLocalMedido(sociosConDocumentos, s, newValue)
            /\ LET call == [socio |-> s, newValue |-> newValue,
                            original |-> LocalRow(s).is_lote_medido,
                            before |-> LocalRow(s).is_lote_medido,
                            overlapped |-> Overlaps(s)]
               IN /\ call \notin toggles
                  /\ toggles' = {IF t.socio = s /\ Overlaps(s)
                                  THEN [t EXCEPT !.overlapped = TRUE]
                                  ELSE t : t \in toggles} \cup {call}
            /\ last' = DocEvent("handleUpdateLoteMedido", s, "optimistic", "none",
                              isBulkUpdating, "none")
    /\ UNCHANGED <<notDocs, docsBackend, loading, error, rowSelection, isBulkUpdating,
                   isAdmin, deleteConfirmState, isDeleting, fetches, bulk, del>>

\* the update succeeded
ToggleOk(t) ==
    /\ focus \in {"docs", "overlap"}
    /\ t \in toggles
    /\ toggles' = toggles \ {t}
    /\ loteFlag' = [loteFlag EXCEPT ![t.socio] = Str(t.newValue)]
    /\ last' = DocEvent("handleUpdateLoteMedido", t.socio, "updated", "success",
                      isBulkUpdating, "none")
    /\ UNCHANGED <<notDocs, docs, files, docsLocal, fetches, bulk, del>>

\* the update failed: toast.error and revert
ToggleFail(t) ==
    /\ focus \in {"docs", "overlap"}
    /\ t \in toggles
    /\ toggles' = toggles \ {t}
    /\ sociosConDocumentos' = RevertOptimistic(sociosConDocumentos, t)
    /\ last' = DocEvent("handleUpdateLoteMedido", t.socio, "failed", "error",
                     isBulkUpdating, "none")
    /\ UNCHANGED <<notDocs, docsBackend, loading, error, rowSelection, isBulkUpdating,
                   isAdmin, deleteConfirmState, isDeleting, fetches, bulk, del>>

\* row.toggleSelected through the table's onRowSelectionChange
ToggleRowSelected(s) ==
    /\ focus = "docs"
    /\ TableShown
    /\ s \in LocalIds
    /\ ~isBulkUpdating
    /\ rowSelection' = IF s \in rowSelection THEN rowSelection \ {s}
                       ELSE rowSelection \cup {s}
    /\ last' = DocEvent("toggleSelected", s, "selected", "none", isBulkUpdating, "none")
    /\ UNCHANGED <<notDocs, docsBackend, sociosConDocumentos, loading, error,
                   isBulkUpdating, isAdmin, deleteConfirmState, isDeleting, docsFlight>>

\* faulty variant: every selected row is updated, documents ignored
BulkSelectedIdsUnfiltered(newValue, selectedRows) == {r.id : r \in selectedRows}

\* selectedIds after the "no medido" filter
BulkSelectedIds(newValue, selectedRows) ==
    IF ~newValue
    THEN {r.id : r \in {x \in selectedRows : ~hasRequiredDocs(x.socio_documentos)}}
    ELSE {r.id : r \in selectedRows}

\* handleBulkUpdateLoteMedido(newValue, selectedRows) up to its await
handleBulkUpdateLoteMedido(newValue) ==
    /\ focus = "docs"
    /\ TableShown
    /\ bulk = NoData
    /\ LET selectedRows == {r \in sociosConDocumentos : r.id \in rowSelection}
           selectedIds == BulkSelectedIds(newValue, selectedRows)
       IN IF PermissionDenied
          THEN /\ last' = DocEvent("handleBulkUpdateLoteMedido", "-", "denied", "error",
                                 isBulkUpdating, "none")
               /\ UNCHANGED <<isBulkUpdating, bulk>>
          ELSE IF selectedRows = {}
          THEN /\ last' = DocEvent("handleBulkUpdateLoteMedido", "-", "empty", "warning",
                                 isBulkUpdating, "none")
               /\ UNCHANGED <<isBulkUpdating, bulk>>
          ELSE IF selectedIds = {}
          THEN /\ isBulkUpdating' = FALSE
               /\ last' = DocEvent("handleBulkUpdateLoteMedido", "-", "cancelled",
                                 "warning", FALSE, "none")
               /\ UNCHANGED bulk
          ELSE /\ isBulkUpdating' = TRUE
               /\ bulk' = [newValue |-> newValue, ids |-> selectedIds]
               /\ last' = DocEvent("handleBulkUpdateLoteMedido", "-", "updating", "none",
                                 TRUE, "none")
    /\ UNCHANGED <<notDocs, docsBackend, sociosConDocumentos, loading, error,
                   rowSelection, isAdmin, deleteConfirmState, isDeleting, fetches,
                   toggles, del>>

\* the bulk update succeeded: selection cleared, refetch, finally
BulkOk ==
    /\ focus = "docs"
    /\ bulk # NoData
    /\ fetches < MaxFetches
    /\ loteFlag' = [s \in SocioIds |->
                      IF s \in bulk.ids THEN Str(bulk.newValue) ELSE loteFlag[s]]
    /\ rowSelection' = {}
    /\ StartFetch
    /\ isBulkUpdating' = FALSE
    /\ bulk' = NoData
    /\ last' = DocEvent("handleBulkUpdateLoteMedido", "-", "updated", "success", FALSE, "none")
    /\ UNCHANGED <<notDocs, docs, files, sociosConDocumentos, error, isAdmin,
                   deleteConfirmState, isDeleting, toggles, del>>

\* the bulk update failed: catch, toast.error, finally
BulkFail ==
    /\ focus = "docs"
    /\ bulk # NoData
    /\ isBulkUpdating' = FALSE
    /\ bulk' = NoData
    /\ last' = DocEvent("handleBulkUpdateLoteMedido", "-", "failed", "error", FALSE, "none")
    /\ UNCHANGED <<notDocs, docsBackend, sociosConDocumentos, loading, error,
                   rowSelection, isAdmin, deleteConfirmState, isDeleting, fetches,
                   toggles, del>>

\* openDeleteConfirmDialog(doc.id, doc.link_documento, doc.tipo_documento, name)
openDeleteConfirmDialog(d) ==
    /\ focus = "docs"
    /\ TableShown
    /\ \E r \in sociosConDocumentos : d \in r.socio_documentos
    /\ deleteConfirmState' = [isOpen |-> TRUE, documentId |-> d,
                              documentLink |-> DocAttr(d).link,
                              documentType |-> DocAttr(d).tipo]
    /\ last' = DocEvent("openDeleteConfirmDialog", "-", "opened", "none", isBulkUpdating, "none")
    /\ UNCHANGED <<notDocs, docsBackend, sociosConDocumentos, loading, error,
                   rowSelection, isBulkUpdating, isAdmin, isDeleting, fetches, toggles,
                   bulk, del>>

\* the dialog's onClose
CloseDeleteDialog ==
    /\ focus = "docs"
    /\ TableShown
    /\ deleteConfirmState.isOpen
    /\ deleteConfirmState' = NoDelete
    /\ last' = DocEvent("closeDeleteDialog", "-", "closed", "none", isBulkUpdating, "none")
    /\ UNCHANGED <<notDocs, docsBackend, sociosConDocumentos, loading, error,
                   rowSelection, isBulkUpdating, isAdmin, isDeleting, docsFlight>>

\* the guard of handleDeleteDocument: documentId, documentLink and documentType set
DeleteInfoComplete(st) ==
    st.documentId # 0 /\ st.documentLink # "none" /\ st.documentType # "none"

\* faulty variant: no guard and no link validation before the storage call
handleDeleteDocumentUnguarded ==
    /\ focus = "docs"
    /\ TableShown
    /\ del = NoData
    /\ isDeleting' = TRUE
    /\ del' = [doc |-> deleteConfirmState.documentId,
                link |-> deleteConfirmState.documentLink,
                tipo |-> deleteConfirmState.documentType, phase |-> "storage"]
    /\ last' = DocEvent("handleDeleteDocument", "-", "removing", "none", TRUE,
                        "storage.remove")
    /\ UNCHANGED <<notDocs, docsBackend, sociosConDocumentos, loading, error,
                   rowSelection, isBulkUpdating, isAdmin, deleteConfirmState, fetches,
                   toggles, bulk>>

\* handleDeleteDocument (the dialog's onConfirm) up to the storage call
handleDeleteDocument ==
    /\ focus = "docs"
    /\ TableShown
    /\ del = NoData
    /\ IF ~DeleteInfoComplete(deleteConfirmState)
       THEN /\ last' = DocEvent("handleDeleteDocument", "-", "missing", "error", isDeleting, "none")
            /\ UNCHANGED <<isDeleting, del>>
       ELSE IF deleteConfirmState.documentLink # "good"
       THEN \* new URL(...) throws or the path has no /public/<bucket>/ part
            /\ isDeleting' = FALSE
            /\ last' = DocEvent("handleDeleteDocument", "-", "failed", "error", FALSE, "none")
            /\ UNCHANGED <<del>>
       ELSE /\ isDeleting' = TRUE
            /\ del' = [doc |-> deleteConfirmState.documentId,
                        link |-> deleteConfirmState.documentLink,
                        tipo |-> deleteConfirmState.documentType, phase |-> "storage"]
            /\ last' = DocEvent("handleDeleteDocument", "-", "removing", "none", TRUE, "storage.remove")
    /\ UNCHANGED <<notDocs, docsBackend, sociosConDocumentos, loading, error,
                   rowSelection, isBulkUpdating, isAdmin, deleteConfirmState, fetches,
                   toggles, bulk>>

\* storage.remove answers (removed, or storageError: only a console warning);
\* the record delete is issued either way
StorageAnswer(removed) ==
    /\ focus = "docs"
    /\ del # NoData /\ del.phase = "storage"
    /\ files' = IF removed THEN files \ {del.doc} ELSE files
    /\ del' = [del EXCEPT !.phase = "db"]
    /\ last' = DocEvent("handleDeleteDocument", "-", "deleting", "none", TRUE, "docs.delete")
    /\ UNCHANGED <<notDocs, loteFlag, docs, docsLocal, fetches, toggles, bulk>>

\* a delete call rejects or the record delete returns dbError: catch, finally
DeleteFail ==
    /\ focus = "docs"
    /\ del # NoData
    /\ del' = NoData
    /\ isDeleting' = FALSE
    /\ last' = DocEvent("handleDeleteDocument", "-", "failed", "error", FALSE, "none")
    /\ UNCHANGED <<notDocs, docsBackend, sociosConDocumentos, loading, error,
                   rowSelection, isBulkUpdating, isAdmin, deleteConfirmState, fetches,
                   toggles, bulk>>

\* the record delete succeeded: dialog state reset, refetch, finally
DeleteOk ==
    /\ focus = "docs"
    /\ del # NoData /\ del.phase = "db"
    /\ fetches < MaxFetches
    /\ docs' = docs \ {del.doc}
    /\ deleteConfirmState' = NoDelete
    /\ StartFetch
    /\ isDeleting' = FALSE
    /\ del' = NoData
    /\ last' = DocEvent("handleDeleteDocument", "-", "deleted", "success", FALSE, "none")
    /\ UNCHANGED <<notDocs, loteFlag, files, sociosConDocumentos, error, rowSelection,
                   isBulkUpdating, isAdmin, toggles, bulk>>

\* PartnerDocuments right after mounting
PartnerDocumentsMounted ==
    /\ LookupUnused
    /\ SubmitUnused
    /\ TableUnused
    /\ RecibosUnused
    /\ loteFlag \in [SocioIds -> {"true", "false", "null"}]
    /\ docs = DocIds
    /\ files = {d \in DocIds : DocAttr(d).link = "good"}
    /\ sociosConDocumentos = {}
    /\ loading = TRUE          \* the mount effect has called fetchAllData
    /\ error = FALSE
    /\ rowSelection = {}
    /\ isBulkUpdating = FALSE
    /\ isAdmin \in BOOLEAN
    /\ deleteConfirmState = NoDelete
    /\ isDeleting = FALSE
    /\ fetches = 1
    /\ toggles = {}
    /\ bulk = NoData
    /\ del = NoData
    /\ last = NoEvent

InitDocs == focus = "docs" /\ PartnerDocumentsMounted

NextDocs ==
    \/ FetchOk
    \/ FetchFail
    \/ \E d \in DocIds : onUploadSuccess(d)
    \/ \E s \in SocioIds : \E v \in BOOLEAN : handleUpdateLoteMedido(s, v)
    \/ \E t \in toggles : ToggleOk(t)
    \/ \E t \in toggles : ToggleFail(t)
    \/ \E s \in SocioIds : ToggleRowSelected(s)
    \/ \E v \in BOOLEAN : handleBulkUpdateLoteMedido(v)
    \/ BulkOk
    \/ BulkFail
    \/ \E d \in DocIds : openDeleteConfirmDialog(d)
    \/ CloseDeleteDialog
    \/ handleDeleteDocument
    \/ \E removed \in BOOLEAN : StorageAnswer(removed)
    \/ DeleteFail
    \/ DeleteOk

SpecDocs == InitDocs /\ [][NextDocs]_vars

\* an administrator working the lote-medido checkboxes only, with requests overlapping
InitOverlap == focus = "overlap" /\ PartnerDocumentsMounted /\ isAdmin

NextOverlap ==
    \/ FetchOk
    \/ \E s \in SocioIds : \E v \in BOOLEAN : handleUpdateLoteMedido(s, v)
    \/ \E t \in toggles : ToggleOk(t)
    \/ \E t \in toggles : ToggleFail(t)

SpecOverlap == InitOverlap /\ [][NextOverlap]_vars

\* ---- properties of PartnerDocuments ----

\* C5: when the backend update of handleUpdateLoteMedido fails, the toggled socio's local
\* is_lote_medido is back at the value it had immediately before the toggle, and the
\* local records of all other socios are the ones they were before the failure arrived.
C5_RevertOnFailure ==
    [][(last'.h = "handleUpdateLoteMedido" /\ last'.ev = "failed") =>
          \A t \in toggles \ toggles' :
             /\ {r.id : r \in sociosConDocumentos'} = {r.id : r \in sociosConDocumentos}
             /\ \A r \in sociosConDocumentos' :
                   r.id = t.socio => r.is_lote_medido = t.before
             /\ \A r \in sociosConDocumentos :
                   r.id # t.socio => r \in sociosConDocumentos']_vars

\* a toggle of s2 failed and was reverted while the row of s1 is listed too
C5_Witness ==
    /\ last.h = "handleUpdateLoteMedido" /\ last.ev = "failed" /\ last.who = "s2"
    /\ toggles = {}
    /\ \E r \in sociosConDocumentos : r.id = "s2" /\ ~r.is_lote_medido
    /\ \E r \in sociosConDocumentos : r.id = "s1"

\* C6: after fetchAllData succeeds every socio's local is_lote_medido equals (the socio
\* has a kept Planos de ubicación or Memoria descriptiva document with a link) or (the
\* stored flag, null counted as false); the kept documents are the stored ones of an
\* allowed type with a link, a Comprobante de Pago only with a valid transaction type.
C6_DocumentOverridesFlag ==
    (last.h = "fetchAllData" /\ last.ev = "loaded") =>
       /\ {r.id : r \in sociosConDocumentos} = SocioIds
       /\ \A r \in sociosConDocumentos :
            /\ r.socio_documentos \subseteq {d \in docs : DocAttr(d).socio = r.id}
            /\ r.is_lote_medido =
                 ( \/ \E d \in r.socio_documentos :
                         /\ DocAttr(d).tipo \in {"Planos de ubicación",
                                                 "Memoria descriptiva"}
                         /\ DocAttr(d).link # "none"
                   \/ loteFlag[r.id] = "true" )

\* s1 has its Planos document and a stored flag of false or null, and is shown measured;
\* s2 has no such document and is shown with its stored flag
C6_Witness ==
    /\ last.h = "fetchAllData" /\ last.ev = "loaded"
    /\ loteFlag["s1"] # "true" /\ 1 \in docs
    /\ \E r \in sociosConDocumentos : r.id = "s1" /\ r.is_lote_medido
    /\ \E r \in sociosConDocumentos :
          r.id = "s2" /\ r.is_lote_medido = (loteFlag["s2"] = "true")

\* C9: a socio_documentos record is deleted, and a storage file removed, only by
\* handleDeleteDocument for the document whose id, link and type
\* openDeleteConfirmDialog recorded and the confirmed dialog handed over; the storage
\* call is issued only from an open dialog holding all three; and when one of the three
\* is missing from the dialog state, no storage call and no database call is made.
C9_DeleteOnlyConfirmed ==
    [][ /\ \A d \in (docs \ docs') \cup (files \ files') :
              /\ last'.h = "handleDeleteDocument"
              /\ del # NoData /\ del.doc = d
              /\ del.link = DocAttr(d).link /\ del.tipo = DocAttr(d).tipo
        /\ (last'.h = "handleDeleteDocument" /\ last'.call # "none") =>
              IF del = NoData
              THEN /\ last'.call = "storage.remove"
                   /\ deleteConfirmState.isOpen
                   /\ deleteConfirmState.documentId \in DocIds
                   /\ deleteConfirmState.documentLink # "none"
                   /\ deleteConfirmState.documentType # "none"
                   /\ del'.doc = deleteConfirmState.documentId
              ELSE last'.call = "docs.delete" /\ del.phase = "storage"
        /\ ( /\ last'.h = "handleDeleteDocument" /\ del = NoData
             /\ \/ deleteConfirmState.documentId = 0
                \/ deleteConfirmState.documentLink = "none"
                \/ deleteConfirmState.documentType = "none" ) =>
              /\ last'.call = "none" /\ del' = NoData
              /\ docs' = docs /\ files' = files ]_vars

\* the record of document 1 was deleted by a confirmed handleDeleteDocument
C9_Witness ==
    /\ last.h = "handleDeleteDocument" /\ last.ev = "deleted"
    /\ 1 \notin docs

\* handleDeleteDocument ran with nothing recorded in the dialog state
C9_WitnessMissing ==
    /\ last.h = "handleDeleteDocument" /\ last.ev = "missing"
    /\ deleteConfirmState = NoDelete /\ del = NoData /\ docs = DocIds

\* C12: no clearing update is issued for a socio whose local record holds a linked
\* "Planos de ubicación" or "Memoria descriptiva" document: a blocked
\* handleUpdateLoteMedido leaves the local list and the backend as they were and starts
\* no request, and the ids of a clearing bulk update contain no such socio.
C12_NoClearingWithRequiredDocs ==
    [][/\ \A t \in toggles' \ toggles :
             ~t.newValue => ~hasRequiredDocs(LocalRow(t.socio).socio_documentos)
       /\ (bulk = NoData /\ bulk' # NoData) =>
             (~bulk'.newValue =>
                \A s \in bulk'.ids : ~hasRequiredDocs(LocalRow(s).socio_documentos))
       /\ (last'.h = "handleUpdateLoteMedido" /\ last'.ev = "blocked") =>
             /\ hasRequiredDocs(LocalRow(last'.who).socio_documentos)
             /\ UNCHANGED <<docsBackend, docsLocal, docsFlight>>]_vars

\* C12 witness: a clearing bulk update is under way that left out a selected socio with
\* a plan on file, and clearing that socio's own checkbox has just been blocked
C12_Witness ==
    /\ last.h = "handleUpdateLoteMedido" /\ last.ev = "blocked"
    /\ bulk # NoData
    /\ ~bulk.newValue
    /\ last.who \in rowSelection \ bulk.ids
    /\ bulk.ids # {}

\* C13 (as claimed): when two handleUpdateLoteMedido calls on one socio overlapped and
\* the last of them has completed, that socio's local is_lote_medido equals the value
\* stored in the backend, for every combination of success and failure and every order
\* of the responses.
C13_OverlapConverges ==
    [][\A t \in toggles \ toggles' :
          (t.overlapped /\ \A u \in toggles' : u.socio # t.socio) =>
              \A r \in sociosConDocumentos' :
                  r.id = t.socio => r.is_lote_medido = (loteFlag'[t.socio] = "true")]_vars

\* C19: for a user who is not an admin, handleUpdateLoteMedido and
\* handleBulkUpdateLoteMedido only show the permission-denied notification: no update
\* is requested or applied, and the socio list, the row selection and the busy flag
\* stay as they are.
C19_NonAdminChangesNothing ==
    [][~isAdmin =>
          /\ toggles' = toggles /\ bulk' = bulk /\ loteFlag' = loteFlag
          /\ last'.h \in {"handleUpdateLoteMedido", "handleBulkUpdateLoteMedido"} =>
                /\ last'.ev = "denied" /\ last'.toast = "error"
                /\ UNCHANGED <<docsBackend, docsLocal, docsFlight>>]_vars

\* C19 witness: a non-admin with a row selected asked for a bulk update and was denied
C19_Witness ==
    /\ ~isAdmin
    /\ last.h = "handleBulkUpdateLoteMedido" /\ last.ev = "denied"
    /\ rowSelection # {}
    /\ ~isBulkUpdating /\ bulk = NoData /\ toggles = {}

-----------------------------------------------------------------------------
(* ------------------------------- DataTable ------------------------------ *)

PageSizes == {10, 20, 30, 40, 50}
DataLengths == {0, 5, 15, 25, 45}
RowIds == {0, 12}                 \* a row of the first page and one of a later page

\* const pagination = controlledPagination ?? internalPagination
\* (the prop is the caller's state when the caller passes it, undefined otherwise)
pagination == IF props.pagination THEN callerPagination ELSE internalPagination

\* const rowSelection = controlledRowSelection ?? internalRowSelection
tableRowSelection ==
    IF props.rowSelection THEN callerRowSelection ELSE internalRowSelection

Ceil(n, d) == (n + d - 1) \div d
Min(a, b) == IF a < b THEN a ELSE b
Max(a, b) == IF a > b THEN a ELSE b

\* react-table: getPageCount, getCanNextPage, getCanPreviousPage from the state it reads
getPageCount == Ceil(data, pagination.pageSize)
getCanNextPage == getPageCount > 0 /\ pagination.pageIndex < getPageCount - 1
getCanPreviousPage == pagination.pageIndex > 0

\* the updater functions react-table hands to onPaginationChange / onRowSelectionChange;
\* pageCount is the table's (closed over), old is the state the setter owns
Updater(kind, arg, pageCount, old) ==
    CASE kind = "nextPage" ->
            [old EXCEPT !.pageIndex = Max(0, Min(old.pageIndex + 1, pageCount - 1))]
      [] kind = "previousPage" ->
            [old EXCEPT !.pageIndex = Max(0, Min(old.pageIndex - 1, pageCount - 1))]
      [] kind = "setPageSize" ->
            [pageIndex |-> (old.pageSize * old.pageIndex) \div Max(1, arg),
             pageSize |-> Max(1, arg)]
      [] kind = "reset" -> [old EXCEPT !.pageIndex = 0]
      [] kind = "toggleSelected" ->
            IF arg \in old THEN old \ {arg} ELSE old \cup {arg}

\* const setPagination = setControlledPagination ?? setInternalPagination
setPagination(kind, arg) ==
    IF props.onPaginationChange
    THEN /\ callerPagination' = Updater(kind, arg, getPageCount, callerPagination)
         /\ UNCHANGED internalPagination
    ELSE /\ internalPagination' = Updater(kind, arg, getPageCount, internalPagination)
         /\ UNCHANGED callerPagination

\* const setRowSelection = setControlledRowSelection ?? setInternalRowSelection
setRowSelection(kind, arg) ==
    IF props.onRowSelectionChange
    THEN /\ callerRowSelection' = Updater(kind, arg, getPageCount, callerRowSelection)
         /\ UNCHANGED internalRowSelection
    ELSE /\ internalRowSelection' =
                Updater(kind, arg, getPageCount, internalRowSelection)
         /\ UNCHANGED callerRowSelection

\* what a change request asks for: the updater applied to the state the table shows
TableEvent(ev, kind, arg) ==
    [h |-> "DataTable", ev |-> ev,
     pagination |-> IF kind = "toggleSelected" THEN pagination
                    ELSE Updater(kind, arg, getPageCount, pagination),
     rowSelection |-> IF kind = "toggleSelected"
                      THEN Updater(kind, arg, getPageCount, tableRowSelection)
                      ELSE tableRowSelection]

\* the next render's pageSize differs: the effect's dependency changed
PageSizeWillChange ==
    (IF props.pagination THEN callerPagination' ELSE internalPagination').pageSize
        # pagination.pageSize

nextPage ==
    /\ focus = "table"
    /\ ~effectDue
    /\ getCanNextPage
    /\ setPagination("nextPage", 0)
    /\ last' = TableEvent("nextPage", "nextPage", 0)
    /\ UNCHANGED <<notTable, props, callerRowSelection, internalRowSelection, data,
                   effectDue>>

previousPage ==
    /\ focus = "table"
    /\ ~effectDue
    /\ getCanPreviousPage
    /\ setPagination("previousPage", 0)
    /\ last' = TableEvent("previousPage", "previousPage", 0)
    /\ UNCHANGED <<notTable, props, callerRowSelection, internalRowSelection, data,
                   effectDue>>

setPageSize(size) ==
    /\ focus = "table"
    /\ ~effectDue
    /\ size # pagination.pageSize
    /\ setPagination("setPageSize", size)
    /\ effectDue' = PageSizeWillChange
    /\ last' = TableEvent("setPageSize", "setPageSize", size)
    /\ UNCHANGED <<notTable, props, callerRowSelection, internalRowSelection, data>>

\* row.toggleSelected() of a row shown on the current page
toggleSelected(row) ==
    /\ focus = "table"
    /\ ~effectDue
    /\ row < data
    /\ pagination.pageIndex * pagination.pageSize <= row
    /\ row < (pagination.pageIndex + 1) * pagination.pageSize
    /\ setRowSelection("toggleSelected", row)
    /\ last' = TableEvent("toggleSelected", "toggleSelected", row)
    /\ UNCHANGED <<notTable, props, callerPagination, internalPagination, data,
                   effectDue>>

\* the caller passes other data (a filter was applied, rows were loaded)
DataChanged(n) ==
    /\ focus = "table"
    /\ ~effectDue
    /\ n # data
    /\ data' = n
    /\ effectDue' = TRUE
    /\ last' = [h |-> "caller", ev |-> "data"]
    /\ UNCHANGED <<notTable, props, callerPagination, callerRowSelection,
                   internalPagination, internalRowSelection>>

\* faulty variant: the effect runs but leaves the page index as it is
PageResetEffectKeepsPage ==
    /\ focus = "table"
    /\ effectDue
    /\ effectDue' = FALSE
    /\ last' = [h |-> "effect", ev |-> "none"]
    /\ UNCHANGED <<notTable, props, callerPagination, callerRowSelection,
                   internalPagination, internalRowSelection, data>>

\* useEffect: reset the page index when the current page lies beyond the data
PageResetEffect ==
    /\ focus = "table"
    /\ effectDue
    /\ effectDue' = FALSE
    /\ IF data > 0 /\ pagination.pageIndex * pagination.pageSize >= data
       THEN /\ setPagination("reset", 0)
            /\ last' = TableEvent("pageReset", "reset", 0)
       ELSE /\ UNCHANGED <<callerPagination, internalPagination>>
            /\ last' = [h |-> "effect", ev |-> "none"]
    /\ UNCHANGED <<notTable, props, callerRowSelection, internalRowSelection, data>>

InitTable ==
    /\ focus = "table"
    /\ LookupUnused
    /\ SubmitUnused
    /\ DocsUnused
    /\ RecibosUnused
    /\ props \in [{"pagination", "onPaginationChange", "rowSelection",
                   "onRowSelectionChange"} -> BOOLEAN]
    /\ callerPagination = InitialPagination
    /\ callerRowSelection = {}
    /\ internalPagination = InitialPagination
    /\ internalRowSelection = {}
    /\ data \in DataLengths
    /\ effectDue = FALSE
    /\ last = NoEvent

NextTable ==
    \/ nextPage
    \/ previousPage
    \/ \E size \in PageSizes : setPageSize(size)
    \/ \E row \in RowIds : toggleSelected(row)
    \/ \E n \in DataLengths : DataChanged(n)
    \/ PageResetEffect

SpecTable == InitTable /\ [][NextTable]_vars

\* C8 (as claimed): every change the table requests is applied to the state the table
\* reads on its next render, for pagination and for row selection, whichever of the
\* four props the caller supplies
C8_ControlledEqualsInternal ==
    last.h = "DataTable" =>
        /\ pagination = last.pagination
        /\ tableRowSelection = last.rowSelection

\* the same restricted to callers that pass a state together with its handler or neither
C8_MatchedPairs ==
    ( /\ last.h = "DataTable"
      /\ props.pagination = props.onPaginationChange
      /\ props.rowSelection = props.onRowSelectionChange ) =>
        /\ pagination = last.pagination
        /\ tableRowSelection = last.rowSelection

\* the first row of the current page lies beyond the data
PageBeyondData == pagination.pageIndex * pagination.pageSize >= data

-----------------------------------------------------------------------------
(* ------------------------------ RecibosPage ----------------------------- *)

\* what fetchNextReceiptCorrelative may answer (lib/api/invoicingApi is not part of
\* the sources: any value is allowed)
Correlatives == {"R1", "R2"}

\* fetchClientByDocument(dni): the client registered under that document number
\* (d1 belongs to a socio titular, d2 to nobody)
fetchClientByDocument(dni) ==
    IF dni = "d1"
    THEN [id |-> "s1", numero_documento |-> "d1", razon_social |-> "n1"]
    ELSE NoData

\* defaultValues of the form (also the values of form.reset)
ReciboDefaultValues == [dni |-> "", client_name |-> "", client_id |-> "null"]

\* toast variants of the page: destructive is recorded as "error"
ReciboEvent(h, ev, toast, busy) == Event(h, "-", ev, toast, busy)

\* loadCorrelative up to its await (mount effect, and the end of onSubmit)
StartLoadCorrelative == corrLoads' = corrLoads + 1

LoadCorrelativeOk(c) ==
    /\ focus = "recibos"
    /\ corrLoads > 0
    /\ corrLoads' = corrLoads - 1
    /\ correlative' = c
    /\ registeredSinceLoad' = FALSE
    /\ last' = ReciboEvent("loadCorrelative", "loaded", "none", isSubmitting)
    /\ UNCHANGED <<notRecibos, isSearching, isSubmitting, clientData, recibo, reciboForm,
                   search, savedPdfs, ingresos, paymentObserved>>

LoadCorrelativeFail ==
    /\ focus = "recibos"
    /\ corrLoads > 0
    /\ corrLoads' = corrLoads - 1
    /\ last' = ReciboEvent("loadCorrelative", "failed", "error", isSubmitting)
    /\ UNCHANGED <<notRecibos, isSearching, isSubmitting, correlative, clientData,
                   recibo, reciboForm, search, savedPdfs, ingresos,
                   registeredSinceLoad, paymentObserved>>

\* the user types in the DNI input ("" stands for any text that is not 8 characters)
ReciboEditDni(d) ==
    /\ focus = "recibos"
    /\ d # reciboForm.dni
    /\ reciboForm' = [reciboForm EXCEPT !.dni = d]
    /\ last' = ReciboEvent("input", "typed", "none", isSubmitting)
    /\ UNCHANGED <<notRecibos, isSearching, isSubmitting, correlative, clientData,
                   recibo, corrLoads, search, savedPdfs, ingresos,
                   registeredSinceLoad, paymentObserved>>

\* faulty variant: the client loaded before stays while the new search runs
handleDniSearchKeepsClient ==
    /\ focus = "recibos"
    /\ ~isSearching
    /\ reciboForm.dni \in Dnis
    /\ isSearching' = TRUE
    /\ search' = reciboForm.dni
    /\ last' = ReciboEvent("handleDniSearch", "searching", "none", TRUE)
    /\ UNCHANGED <<notRecibos, isSubmitting, correlative, clientData, recibo,
                   reciboForm, corrLoads, savedPdfs, ingresos, registeredSinceLoad,
                   paymentObserved>>

\* handleDniSearch up to its await, on the DNI the form holds
handleDniSearch ==
    /\ focus = "recibos"
    /\ ~isSearching                           \* the button is disabled otherwise
    /\ IF reciboForm.dni \notin Dnis
       THEN /\ last' = ReciboEvent("handleDniSearch", "invalid", "warning", isSearching)
            /\ UNCHANGED <<isSearching, clientData, reciboForm, search>>
       ELSE /\ isSearching' = TRUE
            /\ clientData' = NoData
            /\ reciboForm' = [reciboForm EXCEPT !.client_name = "", !.client_id = "null"]
            /\ search' = reciboForm.dni
            /\ last' = ReciboEvent("handleDniSearch", "searching", "none", TRUE)
    /\ UNCHANGED <<notRecibos, isSubmitting, correlative, recibo, corrLoads, savedPdfs,
                   ingresos, registeredSinceLoad, paymentObserved>>

SearchFound ==
    /\ focus = "recibos"
    /\ search # "none"
    /\ fetchClientByDocument(search) # NoData
    /\ search' = "none"
    /\ clientData' = fetchClientByDocument(search)
    /\ reciboForm' = [reciboForm EXCEPT
                        !.client_name = fetchClientByDocument(search).razon_social,
                        !.client_id = fetchClientByDocument(search).id]
    /\ isSearching' = FALSE
    /\ last' = ReciboEvent("handleDniSearch", "found", "success", FALSE)
    /\ UNCHANGED <<notRecibos, isSubmitting, correlative, recibo, corrLoads, savedPdfs,
                   ingresos, registeredSinceLoad, paymentObserved>>

SearchNotFound ==
    /\ focus = "recibos"
    /\ search # "none"
    /\ search' = "none"
    /\ isSearching' = FALSE
    /\ last' = ReciboEvent("handleDniSearch", "not_found", "warning", FALSE)
    /\ UNCHANGED <<notRecibos, isSubmitting, correlative, clientData, recibo,
                   reciboForm, corrLoads, savedPdfs, ingresos, registeredSinceLoad,
                   paymentObserved>>

SearchFail ==
    /\ focus = "recibos"
    /\ search # "none"
    /\ search' = "none"
    /\ isSearching' = FALSE
    /\ last' = ReciboEvent("handleDniSearch", "failed", "error", FALSE)
    /\ UNCHANGED <<notRecibos, isSubmitting, correlative, clientData, recibo,
                   reciboForm, corrLoads, savedPdfs, ingresos, registeredSinceLoad,
                   paymentObserved>>

\* if (!clientData || !clientData.id || !correlative)
ReciboIncomplete == clientData = NoData \/ correlative = ""

\* onSubmit(values) up to the PDF generation; observed: values.is_payment_observed.
\* form.handleSubmit calls it with a DNI that passed the schema.
ReciboOnSubmit(observed) ==
    /\ focus = "recibos"
    /\ recibo = NoData
    /\ ~isSubmitting                           \* the submit button is disabled otherwise
    /\ reciboForm.dni \in Dnis
    /\ IF ReciboIncomplete
       THEN /\ last' = ReciboEvent("onSubmit", "incomplete", "error", isSubmitting)
            /\ UNCHANGED <<isSubmitting, recibo>>
       ELSE /\ Cardinality(ingresos) < MaxRecibos
            /\ isSubmitting' = TRUE
            /\ recibo' = [step |-> "pdf", correlative |-> correlative,
                          client |-> clientData, dni |-> reciboForm.dni,
                          observed |-> observed]
            /\ last' = ReciboEvent("onSubmit", "generating", "none", TRUE)
    /\ UNCHANGED <<notRecibos, isSearching, correlative, clientData, reciboForm,
                   corrLoads, search, savedPdfs, ingresos, registeredSinceLoad,
                   paymentObserved>>

ReciboStep(from, to, ev) ==
    /\ focus = "recibos"
    /\ recibo # NoData /\ recibo.step = from
    /\ recibo' = [recibo EXCEPT !.step = to]
    /\ last' = ReciboEvent("onSubmit", ev, "none", TRUE)
    /\ UNCHANGED <<notRecibos, isSearching, isSubmitting, correlative, clientData,
                   reciboForm, corrLoads, search, registeredSinceLoad>>

\* import of the generator and generateReceiptPdf succeeded
PdfGenerated ==
    /\ ReciboStep("pdf", "save", "generated")
    /\ UNCHANGED <<savedPdfs, ingresos, paymentObserved>>

\* saveReceiptPdfToSupabase(pdfBlob, correlative, clientData.id) succeeded
PdfSaved ==
    /\ ReciboStep("save", "income", "saved")
    /\ savedPdfs' = savedPdfs \cup
          {[correlative |-> recibo.correlative, client |-> recibo.client.id]}
    /\ UNCHANGED <<ingresos, paymentObserved>>

\* steps 7 and 8: success toast, form.reset, setClientData(null), loadCorrelative(),
\* and the finally block
ReciboFinish(ev, toast) ==
    /\ corrLoads < MaxLoads
    /\ recibo' = NoData
    /\ clientData' = NoData
    /\ reciboForm' = ReciboDefaultValues
    /\ StartLoadCorrelative
    /\ isSubmitting' = FALSE
    /\ last' = ReciboEvent("onSubmit", ev, toast, FALSE)
    /\ UNCHANGED <<notRecibos, isSearching, correlative, search, savedPdfs>>

\* incomeData of onSubmit
incomeData(r) ==
    [receipt_number |-> r.correlative, dni |-> r.dni, full_name |-> r.client.razon_social]

\* createIncomeFromBoleta succeeded
IncomeCreated ==
    /\ focus = "recibos"
    /\ recibo # NoData /\ recibo.step = "income"
    /\ ingresos' = ingresos \cup {incomeData(recibo)}
    /\ registeredSinceLoad' = TRUE
    /\ IF recibo.observed
       THEN /\ recibo' = [recibo EXCEPT !.step = "socio"]
            /\ last' = ReciboEvent("onSubmit", "registered", "none", TRUE)
            /\ UNCHANGED <<notRecibos, isSearching, isSubmitting, correlative,
                           clientData, reciboForm, corrLoads, search, savedPdfs>>
       ELSE ReciboFinish("done", "success")
    /\ UNCHANGED paymentObserved

\* the socio update answered without error
SocioMarkedObserved ==
    /\ focus = "recibos"
    /\ recibo # NoData /\ recibo.step = "socio"
    /\ paymentObserved' = TRUE
    /\ ReciboFinish("done", "success")
    /\ UNCHANGED <<ingresos, registeredSinceLoad>>

\* faulty variant: a socioUpdateError ends the handler like a rejected call
SocioUpdateErrorAborts ==
    /\ focus = "recibos"
    /\ recibo # NoData /\ recibo.step = "socio"
    /\ recibo' = NoData
    /\ isSubmitting' = FALSE
    /\ last' = ReciboEvent("onSubmit", "observation_failed", "warning", FALSE)
    /\ UNCHANGED <<notRecibos, isSearching, correlative, clientData, reciboForm,
                   corrLoads, search, savedPdfs, ingresos, registeredSinceLoad,
                   paymentObserved>>

\* the socio update answered with socioUpdateError: a warning toast, then the handler
\* goes on to the success toast
SocioUpdateError ==
    /\ focus = "recibos"
    /\ recibo # NoData /\ recibo.step = "socio"
    /\ ReciboFinish("observation_failed", "warning")
    /\ UNCHANGED <<ingresos, registeredSinceLoad, paymentObserved>>

\* faulty variant: the catch block without the finally block
ReciboFailedStuck ==
    /\ focus = "recibos"
    /\ recibo # NoData
    /\ recibo' = NoData
    /\ last' = ReciboEvent("onSubmit", "failed", "error", isSubmitting)
    /\ UNCHANGED <<notRecibos, isSearching, isSubmitting, correlative, clientData,
                   reciboForm, corrLoads, search, savedPdfs, ingresos,
                   registeredSinceLoad, paymentObserved>>

\* an awaited call of onSubmit rejects (import, generateReceiptPdf,
\* saveReceiptPdfToSupabase, createIncomeFromBoleta, the socio update): catch, finally
ReciboFailed ==
    /\ focus = "recibos"
    /\ recibo # NoData
    /\ recibo' = NoData
    /\ isSubmitting' = FALSE
    /\ last' = ReciboEvent("onSubmit", "failed", "error", FALSE)
    /\ UNCHANGED <<notRecibos, isSearching, correlative, clientData, reciboForm,
                   corrLoads, search, savedPdfs, ingresos, registeredSinceLoad,
                   paymentObserved>>

InitRecibos ==
    /\ focus = "recibos"
    /\ LookupUnused
    /\ SubmitUnused
    /\ DocsUnused
    /\ TableUnused
    /\ isSearching = FALSE
    /\ isSubmitting = FALSE
    /\ correlative = ""
    /\ clientData = NoData
    /\ recibo = NoData
    /\ reciboForm = ReciboDefaultValues
    /\ corrLoads = 1              \* the mount effect has called loadCorrelative
    /\ search = "none"
    /\ savedPdfs = {}
    /\ ingresos = {}
    /\ registeredSinceLoad = FALSE
    /\ paymentObserved = FALSE
    /\ last = NoEvent

NextRecibos ==
    \/ \E c \in Correlatives : LoadCorrelativeOk(c)
    \/ LoadCorrelativeFail
    \/ \E d \in Dnis \cup {""} : ReciboEditDni(d)
    \/ handleDniSearch
    \/ SearchFound
    \/ SearchNotFound
    \/ SearchFail
    \/ \E o \in BOOLEAN : ReciboOnSubmit(o)
    \/ PdfGenerated
    \/ PdfSaved
    \/ IncomeCreated
    \/ SocioMarkedObserved
    \/ SocioUpdateError
    \/ ReciboFailed

SpecRecibos == InitRecibos /\ [][NextRecibos]_vars

\* ---- properties of RecibosPage ----

\* C14 (as claimed): onSubmit is all-or-nothing: whenever no submission is running,
\* the correlatives with a stored and linked PDF are exactly the receipt numbers with
\* an income record.
C14_ReceiptAllOrNothing ==
    recibo = NoData =>
        {p.correlative : p \in savedPdfs} = {i.receipt_number : i \in ingresos}

\* C15 (as claimed): once a receipt has been registered, the next submission proceeds
\* only with a correlative that loadCorrelative delivered after that registration,
\* whatever the order of the loadCorrelative response, the DNI search and the submit,
\* and also when loadCorrelative fails.
C15_CorrelativeFetchedAfterRegistration ==
    (last.h = "onSubmit" /\ last.ev = "generating") => ~registeredSinceLoad

\* position of onSubmit: "idle" when it is not running, else the call it awaits
ReciboAt(r) == IF r = NoData THEN "idle" ELSE r.step

\* step 8 of onSubmit happened in this step
ReciboResetAndReload ==
    /\ reciboForm' = ReciboDefaultValues
    /\ clientData' = NoData
    /\ corrLoads' = corrLoads + 1

\* C16: onSubmit goes through generate PDF, save PDF, create income, update the socio's
\* payment observation (only when is_payment_observed is set), reset and reload, in that
\* order; the PDF is stored only after it was generated, the income record is created
\* only after the PDF was stored, the socio is marked only after the income record was
\* created, the reset and reload happen only after all of them; a rejected call ends
\* the handler without any later step; an error answer of the payment-observation
\* update still leads to the success notification, the reset and the reload.
C16_StepsInOrder ==
    [][/\ ReciboAt(recibo') # ReciboAt(recibo) =>
             \/ ReciboAt(recibo) = "idle" /\ ReciboAt(recibo') = "pdf"
             \/ ReciboAt(recibo) = "pdf" /\ ReciboAt(recibo') = "save"
             \/ ReciboAt(recibo) = "save" /\ ReciboAt(recibo') = "income"
             \/ ReciboAt(recibo) = "income" /\ ReciboAt(recibo') = "socio"
                    /\ recibo.observed
             \/ ReciboAt(recibo) = "income" /\ ReciboAt(recibo') = "idle"
                    /\ (recibo.observed => last'.ev = "failed")
             \/ ReciboAt(recibo) # "idle" /\ ReciboAt(recibo') = "idle"
       /\ savedPdfs' # savedPdfs =>
             ReciboAt(recibo) = "save" /\ ReciboAt(recibo') = "income"
       /\ ingresos' # ingresos =>
             /\ ReciboAt(recibo) = "income" /\ last'.ev # "failed"
             /\ recibo.correlative \in {p.correlative : p \in savedPdfs}
       /\ paymentObserved' # paymentObserved =>
             /\ ReciboAt(recibo) = "socio" /\ recibo.observed
             /\ recibo.correlative \in {i.receipt_number : i \in ingresos}
       /\ (last'.h = "onSubmit" /\ last'.ev \in {"done", "observation_failed"}) =>
             /\ ReciboAt(recibo) \in {"income", "socio"}
             /\ ReciboAt(recibo') = "idle"
             /\ recibo.correlative \in {i.receipt_number : i \in ingresos'}
             /\ recibo.correlative \in {p.correlative : p \in savedPdfs'}
             /\ ReciboResetAndReload
       /\ (last'.h = "onSubmit" /\ last'.ev = "failed") =>
             /\ ReciboAt(recibo') = "idle"
             /\ UNCHANGED <<reciboForm, clientData, corrLoads, savedPdfs, ingresos,
                            paymentObserved>>]_vars

\* C16 witness: the payment-observation update answered with an error after the PDF
\* was stored and the income record created, and the form was reset all the same
C16_Witness ==
    /\ last.h = "onSubmit" /\ last.ev = "observation_failed"
    /\ savedPdfs # {} /\ ingresos # {}
    /\ ~paymentObserved
    /\ reciboForm = ReciboDefaultValues /\ clientData = NoData /\ recibo = NoData
    /\ corrLoads > 0

\* C17: onSubmit starts the PDF generation, and anything is written to the backend, only
\* with a loaded client that has an id and a non-empty correlative; a handleDniSearch
\* that issues its request has cleared clientData, client_name and client_id; clientData
\* becomes non-null only when a search answers with a client, and is null after a
\* search that answered without one or failed.
C17_SubmitNeedsLoadedClient ==
    [][/\ (last'.h = "onSubmit" /\ last'.ev = "generating") =>
             /\ clientData # NoData /\ correlative # ""
             /\ recibo'.client = clientData /\ recibo'.client.id \in SocioIds
             /\ recibo'.correlative = correlative
       /\ (savedPdfs' # savedPdfs \/ ingresos' # ingresos
             \/ paymentObserved' # paymentObserved) =>
             recibo # NoData /\ recibo.client # NoData /\ recibo.correlative # ""
       /\ (last'.h = "onSubmit" /\ last'.ev = "incomplete") =>
             UNCHANGED <<recibosVars>>
       /\ search' \notin {search, "none"} =>
             /\ clientData' = NoData
             /\ reciboForm'.client_name = ""
             /\ reciboForm'.client_id = "null"
       /\ (clientData' # NoData /\ clientData' # clientData) =>
             /\ last'.h = "handleDniSearch" /\ last'.ev = "found"
             /\ clientData' = fetchClientByDocument(search)
       /\ (last'.h = "handleDniSearch" /\ last'.ev \in {"not_found", "failed"}) =>
             clientData' = NoData]_vars

\* C17 witness: a search started while a submission for the client loaded before is
\* running, and that client is no longer loaded
C17_Witness ==
    /\ last.h = "handleDniSearch" /\ last.ev = "searching"
    /\ recibo # NoData
    /\ clientData = NoData
    /\ reciboForm.client_name = "" /\ reciboForm.client_id = "null"
    /\ search = "d1"

\* C18 (as claimed): every income record carries the document number of the client
\* whose name it carries and whose id received the PDF of that receipt, for any
\* sequence of DNI edits, searches and submit.
C18_IncomeDniIsClientDocument ==
    \A i \in ingresos :
        \E d \in Dnis :
            LET c == fetchClientByDocument(d)
            IN /\ c # NoData
               /\ i.full_name = c.razon_social
               /\ i.dni = c.numero_documento
               /\ [correlative |-> i.receipt_number, client |-> c.id] \in savedPdfs

-----------------------------------------------------------------------------
(* ---- the three handlers with a busy flag, each on its own page ---- *)

\* (the bulk actions are rendered for administrators only; no lote is stored as
\* measured yet)
InitHandlers ==
    \/ InitRecibos
    \/ InitValidate
    \/ InitDocs /\ isAdmin /\ loteFlag = [s \in SocioIds |-> "false"]
NextHandlers == NextRecibos \/ NextSubmit \/ NextDocs
SpecHandlers == InitHandlers /\ [][NextHandlers]_vars

\* C10: in RecibosPage.onSubmit, handleConfirmSubmit and handleBulkUpdateLoteMedido a
\* failing backend call ends inside the handler with a notification that reports the
\* failure (the error/destructive toast of the catch block; for the payment-observation
\* update of onSubmit, whose error is returned and not thrown, the warning toast), the
\* busy flag (isSubmitting, isConfirmingSubmission, isBulkUpdating) is false once the
\* handler has finished, and the flag is true only while the handler is still running.
C10_FailuresCaught ==
    /\ focus = "recibos" =>
         /\ (last.h = "onSubmit" /\ last.ev = "failed") =>
               last.toast = "error" /\ ~isSubmitting /\ recibo = NoData
         /\ (last.h = "onSubmit" /\ last.ev = "observation_failed") =>
               last.toast = "warning" /\ ~isSubmitting /\ recibo = NoData
         /\ isSubmitting => recibo # NoData
    /\ focus = "validate" =>
         /\ (last.h = "handleConfirmSubmit" /\ last.ev = "failed") =>
               /\ last.toast = "error"
               /\ ~sess[last.who].isConfirmingSubmission
               /\ sess[last.who].pc = "idle"
         /\ \A s \in Sessions : sess[s].isConfirmingSubmission => sess[s].pc # "idle"
    /\ focus = "docs" =>
         /\ (last.h = "handleBulkUpdateLoteMedido" /\ last.ev = "failed") =>
               last.toast = "error" /\ ~isBulkUpdating /\ bulk = NoData
         /\ isBulkUpdating => bulk # NoData

\* createIncomeFromBoleta failed after the PDF had been stored
C10_Witness ==
    /\ focus = "recibos"
    /\ last.h = "onSubmit" /\ last.ev = "failed"
    /\ savedPdfs # {} /\ ingresos = {}

\* the insert of handleConfirmSubmit failed
C10_WitnessConfirm ==
    /\ focus = "validate"
    /\ last.h = "handleConfirmSubmit" /\ last.ev = "failed"
    /\ socios = {}

\* the bulk update failed with a selection in place
C10_WitnessBulk ==
    /\ focus = "docs"
    /\ last.h = "handleBulkUpdateLoteMedido" /\ last.ev = "failed"
    /\ rowSelection # {}

=============================================================================
